---- MODULE Spec2Model ----
(***************************************************************************)
(* Lifecycle controller of the benchmark harness (package benchmaq).       *)
(*                                                                         *)
(*   SpecE2E : runpod.bench.from_yaml -> runner.run_e2e -> client.deploy,  *)
(*             wait_for_pod, run_remote, _download_results, client.delete  *)
(*   SpecSeq : vllm.bench._run_benchmarks driving one server child process *)
(*             per plan entry (VLLMServer / SGLangServer start, health     *)
(*             polling, stop, port release)                                *)
(*   SpecSky : skypilot.bench.from_yaml (launch, download, teardown)       *)
(*   SpecSsh : skypilot client._download_results_via_ssh (listing with     *)
(*             fallback patterns, one scp per file)                        *)
(*   SpecFetch : runner.run on a remote host: run_remote, then             *)
(*             runner._download_results                                    *)
(*   SpecFlat : the trial loops and result names of a flattened entry      *)
(*   and one specification for each further function, each over the same   *)
(*   variables with every other function at rest.                          *)
(*                                                                         *)
(* One action is one step of the code between two calls into the outside   *)
(* world (provider API, SSH, child process, signal delivery).  The outside *)
(* world answers nondeterministically.                                     *)
(***************************************************************************)
EXTENDS Integers, Sequences, FiniteSets, TLC

\* ------------------------------------------------------------------ bounds
MaxRetries == 2
MaxPolls == 2
MaxEntries == 2
MaxBench == 1
MaxAttempts == 1
MaxDirs == 2
MaxDeletes == 2
MaxPorts == 2
MaxBag == 3
MaxIndex == 2
MaxLines == 2
MaxContexts == 2
MaxRuns == 2
MaxProbes == 3
MaxPlan == 2
MaxBid == 2
MaxGpus == 2

\* ------------------------------------------------------- program constants
HealthCheckRetriesDefault == 60
PortProbes == 30

\* ------------------------------------------------------------------- state
VARIABLES
  entry,              \* which public function the caller invoked
  cfgValid,           \* the config has a runpod section and an API key
  spot,               \* deploy(spot=...)
  deploy_retries,     \* deploy(deploy_retries=...)
  wait_for_ready,     \* deploy(wait_for_ready=...)
  health_check_retries, \* deploy(health_check_retries=...)
  e2ePc,              \* control position
  attempt,            \* deploy: loop variable of the spot retry loop
  last_error,         \* deploy: last transient provider message (<<>> is None)
  createLog,          \* provider side: the responses given to create mutations
  sleeps,             \* deploy: number of time.sleep(deploy_retry_interval)
  created,            \* provider side: id of the pod the create call made ("" none)
  polls,              \* wait_for_pod: polls made
  instance,           \* deploy: the dict it returns
  pod_id,             \* run_e2e: local pod_id ("" is None)
  exc,                \* the exception in flight
  remoteOutcome,      \* how run_remote ended
  downloadOutcome,    \* how _download_results ended
  deleteCalls,        \* provider side: ids passed to terminate_pod, in order
  deleteOutcome,      \* how the delete call of run_e2e's finally ended
  status              \* what from_yaml returned / what escaped it

e2eVars == <<entry, cfgValid, spot, deploy_retries, wait_for_ready,
             health_check_retries, e2ePc, attempt, last_error, createLog,
             sleeps, created, polls, instance, pod_id, exc, remoteOutcome,
             downloadOutcome, deleteCalls, deleteOutcome, status>>

VARIABLES
  engine,             \* which server class the sequencer drives
  max_attempts,       \* health polling budget (VLLMServer: 0 is unlimited)
  plan,               \* config["benchmark"]: the entries, in order
  idx,                \* _run_benchmarks: position in the plan (1-based)
  seqPc,              \* control position of the sequencer
  proc,               \* server.process: "none", "running", "exited"
  serverPort,         \* server.port of the last server object (0: none yet)
  portBusy,           \* OS side: the ports that cannot be bound right now
  health_attempt,     \* _wait_for_health: attempt
  healthResult,       \* what start() returned: "none", "True", "False"
  startReturned,      \* start() of the current entry returned
  bench_index,        \* run_benchmark calls made for the current entry
  nonzeroExit,        \* a trial of the current entry returned a non-zero code
  stops,              \* stop() calls made for the current entry's server
  probes,             \* stop: bind probes that failed so far
  released,           \* the last stop() printed "Port ... released"
  trials_alive,       \* OS side: live children started by run_benchmark
  seqExc              \* the exception in flight in the sequencer

seqVars == <<engine, max_attempts, plan, idx, seqPc, proc, serverPort,
             portBusy, health_attempt, healthResult, startReturned,
             bench_index, nonzeroExit, stops, probes, released, trials_alive,
             seqExc>>

VARIABLES
  skyCfg,             \* the config has a non-empty skypilot section
  nDirs,              \* unique result_dir of the entries with save_result
  skyPc,              \* control position of skypilot.bench.from_yaml
  dirIdx,             \* loop position in results_cfg["result_dirs"] (1-based)
  job_id,             \* result.get("job_id") (0 is None)
  clusterUp,          \* provider side: the cluster exists
  downloadLog,        \* how each download_results call ended, in order
  teardownLog,        \* how each teardown_cluster call ended, in order
  skyExc,             \* the exception in flight
  skyStatus           \* "status" of the dict returned ("raised": it raised)

skyVars == <<skyCfg, nDirs, skyPc, dirIdx, job_id, clusterUp, downloadLog,
             teardownLog, skyExc, skyStatus>>

VARIABLES
  pods,               \* provider side: what runpod.get_pods() would return
  delPc,              \* control position of delete
  argPodId,           \* delete(pod_id=...) as passed ("" is None)
  argName,            \* delete(name=...) as passed ("" is None)
  listing,            \* find_by_name: the list runpod.get_pods() returned
  resolvedId,         \* delete: local pod_id
  terminateCalls,     \* provider side: ids passed to runpod.terminate_pod
  termBefore,         \* length of terminateCalls when delete was entered
  delResult,          \* the dict delete returned
  delExc,             \* the exception delete raised
  delCalls            \* delete invocations so far

delVars == <<pods, delPc, argPodId, argName, listing, resolvedId,
             terminateCalls, termBefore, delResult, delExc, delCalls>>

VARIABLES
  retry,              \* wait_for_pod(retry=...)
  wPc,                \* control position of wait_for_pod
  wI,                 \* loop variable i: polls completed
  wObserved,          \* what the pod query of the current poll answered
  wPorts,             \* runtime["ports"] as get_ssh_info last saw it
  ssh_info,           \* wait_for_pod: local ssh_info (NoSshInfo is None)
  handshakes,         \* the SSH handshakes made, in order
  wResult,            \* the dict wait_for_pod returned
  wExc                \* the exception that left wait_for_pod

waitVars == <<retry, wPc, wI, wObserved, wPorts, ssh_info, handshakes,
              wResult, wExc>>

VARIABLES
  builder,            \* which function runs the loop
  kwargs,             \* the key/value bag, in insertion order
  kIdx,               \* loop position in kwargs.items() (1-based)
  cmd,                \* the command list built so far
  flagPc              \* control position

flagVars == <<builder, kwargs, kIdx, cmd, flagPc>>

VARIABLES
  config_name,        \* name of the plan entry
  bench_cfgs,         \* two elements of enumerate(bench_configs)
  bench_i,            \* how many of them the loop has named
  result_names        \* the result_name of each, in order

nameVars == <<config_name, bench_cfgs, bench_i, result_names>>

VARIABLES
  impl,               \* which run_benchmark: "core" or "runner"
  save_results,       \* results policy: save_result / save_results
  result_filename,    \* results_config["result_filename"] ("" is None)
  save_detailed,      \* results_config["save_detailed"]
  output,             \* the lines the subprocess writes, in order
  benchPc,            \* control position of run_benchmark
  benchCmd,           \* the command the subprocess was started with
  streamed,           \* the lines printed to the caller so far
  log_lines,          \* run_benchmark: log_lines
  returncode,         \* process.returncode (-1: not exited)
  dirs,               \* file system: directories created
  files,              \* file system: files written
  benchExc            \* the exception that left run_benchmark

benchVars == <<impl, save_results, result_filename, save_detailed, output,
               benchPc, benchCmd, streamed, log_lines, returncode, dirs,
               files, benchExc>>

\* A fault-free run of runpod.bench.from_yaml (run_e2e, run_remote).
VARIABLES context_sizes, cloudSave, cloudPc, calls, ctx_i, returncodes,
          remote_files, remote_result, local_files, e2e_result, ret

cloudVars ==
  <<context_sizes, cloudSave, cloudPc, calls, ctx_i, returncodes,
    remote_files, remote_result, local_files, e2e_result, ret>>

\* cli.main: one invocation of the command line.
VARIABLES command, subcommand, config_given, config_exists, cliPc, from_yaml_calls,
          result_status, cliExc, printed_help, exit_code

cliVars ==
  <<command, subcommand, config_given, config_exists, cliPc,
    from_yaml_calls, result_status, cliExc, printed_help, exit_code>>

\* benchmaq.bench: the programmatic entry point.
VARIABLES file_runs, file_host, model_path, host, apiPc, config_runs,
          is_remote, remote_host, executions, apiResult, apiExc

apiVars ==
  <<file_runs, file_host, model_path, host, apiPc, config_runs, is_remote,
    remote_host, executions, apiResult, apiExc>>

\* _wait_for_health of the two server classes.
VARIABLES hEngine, hMaxAttempts, hPc, hAttempt, answers, hResult

healthVars == <<hEngine, hMaxAttempts, hPc, hAttempt, answers, hResult>>

\* stop() of the two server classes.
VARIABLES stopProc, stopPc, signals, timed_out, waits, bind_probes,
          port_held, other_holder, port_released, stopExc

stopVars ==
  <<stopProc, stopPc, signals, timed_out, waits, bind_probes, port_held,
    other_holder, port_released, stopExc>>

\* The loop over the plan entries (run_remote, vllm.run, _run_benchmarks).
VARIABLES planImpl, runs, run_i, planPc, run_name, run_model, trial_i,
          events, planExc

planVars ==
  <<planImpl, runs, run_i, planPc, run_name, run_model, trial_i, events,
    planExc>>

\* client.deploy: the bid of a spot deploy.
VARIABLES bidSpot, bid_per_gpu, gpu_count, secure_cloud, bidPc,
          price_queries, min_bid, bid, mutations

bidVars ==
  <<bidSpot, bid_per_gpu, gpu_count, secure_cloud, bidPc, price_queries,
    min_bid, bid, mutations>>

\* skypilot client._download_results_via_ssh
VARIABLES remote_dir, sshPc, ssh_attempt, ssh_connected, pattern_i,
          listed_files, file_i, scp_runs, downloaded_files, sshLog, sshResult,
          sshExc

sshVars ==
  <<remote_dir, sshPc, ssh_attempt, ssh_connected, pattern_i, listed_files,
    file_i, scp_runs, downloaded_files, sshLog, sshResult, sshExc>>

\* runner._download_results after run_remote
VARIABLES remote_cfg, fetch_runs, target_accepts, remote_tree, fetchPc,
          session_args, connect_args, output_dir, fetched, fetchLog,
          fetchResult

fetchVars ==
  <<remote_cfg, fetch_runs, target_accepts, remote_tree, fetchPc,
    session_args, connect_args, output_dir, fetched, fetchLog, fetchResult>>

\* run_remote / vllm.run: trial loops of a flattened entry
VARIABLES flat_pairs, flat_contexts, flat_concurrencies, flat_prompts,
          flat_output_lens, flatPc, flat_at, flat_servers, flat_trials

flatVars ==
  <<flat_pairs, flat_contexts, flat_concurrencies, flat_prompts,
    flat_output_lens, flatPc, flat_at, flat_servers, flat_trials>>

\* For each function modelled, the state of all the others.
notE2E ==
  <<seqVars, skyVars, delVars, waitVars, flagVars, nameVars, benchVars,
    cloudVars, cliVars, apiVars, healthVars, stopVars, planVars, bidVars,
    sshVars, fetchVars, flatVars>>

notSeq ==
  <<e2eVars, skyVars, delVars, waitVars, flagVars, nameVars, benchVars,
    cloudVars, cliVars, apiVars, healthVars, stopVars, planVars, bidVars,
    sshVars, fetchVars, flatVars>>

notSky ==
  <<e2eVars, seqVars, delVars, waitVars, flagVars, nameVars, benchVars,
    cloudVars, cliVars, apiVars, healthVars, stopVars, planVars, bidVars,
    sshVars, fetchVars, flatVars>>

notDelete ==
  <<e2eVars, seqVars, skyVars, waitVars, flagVars, nameVars, benchVars,
    cloudVars, cliVars, apiVars, healthVars, stopVars, planVars, bidVars,
    sshVars, fetchVars, flatVars>>

notWait ==
  <<e2eVars, seqVars, skyVars, delVars, flagVars, nameVars, benchVars,
    cloudVars, cliVars, apiVars, healthVars, stopVars, planVars, bidVars,
    sshVars, fetchVars, flatVars>>

notFlags ==
  <<e2eVars, seqVars, skyVars, delVars, waitVars, nameVars, benchVars,
    cloudVars, cliVars, apiVars, healthVars, stopVars, planVars, bidVars,
    sshVars, fetchVars, flatVars>>

notName ==
  <<e2eVars, seqVars, skyVars, delVars, waitVars, flagVars, benchVars,
    cloudVars, cliVars, apiVars, healthVars, stopVars, planVars, bidVars,
    sshVars, fetchVars, flatVars>>

notBench ==
  <<e2eVars, seqVars, skyVars, delVars, waitVars, flagVars, nameVars,
    cloudVars, cliVars, apiVars, healthVars, stopVars, planVars, bidVars,
    sshVars, fetchVars, flatVars>>

notCloud ==
  <<e2eVars, seqVars, skyVars, delVars, waitVars, flagVars, nameVars,
    benchVars, cliVars, apiVars, healthVars, stopVars, planVars, bidVars,
    sshVars, fetchVars, flatVars>>

notCli ==
  <<e2eVars, seqVars, skyVars, delVars, waitVars, flagVars, nameVars,
    benchVars, cloudVars, apiVars, healthVars, stopVars, planVars, bidVars,
    sshVars, fetchVars, flatVars>>

notApi ==
  <<e2eVars, seqVars, skyVars, delVars, waitVars, flagVars, nameVars,
    benchVars, cloudVars, cliVars, healthVars, stopVars, planVars, bidVars,
    sshVars, fetchVars, flatVars>>

notHealth ==
  <<e2eVars, seqVars, skyVars, delVars, waitVars, flagVars, nameVars,
    benchVars, cloudVars, cliVars, apiVars, stopVars, planVars, bidVars,
    sshVars, fetchVars, flatVars>>

notStop ==
  <<e2eVars, seqVars, skyVars, delVars, waitVars, flagVars, nameVars,
    benchVars, cloudVars, cliVars, apiVars, healthVars, planVars, bidVars,
    sshVars, fetchVars, flatVars>>

notPlan ==
  <<e2eVars, seqVars, skyVars, delVars, waitVars, flagVars, nameVars,
    benchVars, cloudVars, cliVars, apiVars, healthVars, stopVars, bidVars,
    sshVars, fetchVars, flatVars>>

notBid ==
  <<e2eVars, seqVars, skyVars, delVars, waitVars, flagVars, nameVars,
    benchVars, cloudVars, cliVars, apiVars, healthVars, stopVars, planVars,
    sshVars, fetchVars, flatVars>>

notSsh ==
  <<e2eVars, seqVars, skyVars, delVars, waitVars, flagVars, nameVars,
    benchVars, cloudVars, cliVars, apiVars, healthVars, stopVars, planVars,
    bidVars, fetchVars, flatVars>>

notFetch ==
  <<e2eVars, seqVars, skyVars, delVars, waitVars, flagVars, nameVars,
    benchVars, cloudVars, cliVars, apiVars, healthVars, stopVars, planVars,
    bidVars, sshVars, flatVars>>

notFlat ==
  <<e2eVars, seqVars, skyVars, delVars, waitVars, flagVars, nameVars,
    benchVars, cloudVars, cliVars, apiVars, healthVars, stopVars, planVars,
    bidVars, sshVars, fetchVars>>

vars ==
  <<e2eVars, seqVars, skyVars, delVars, waitVars, flagVars, nameVars,
    benchVars, cloudVars, cliVars, apiVars, healthVars, stopVars, planVars,
    bidVars, sshVars, fetchVars, flatVars>>

\* ----------------------------------------------------------- exceptions
NoExc == [type |-> "none", text |-> "", detail |-> <<>>, n |-> 0]

Exc(type, text, detail, n) ==
  [type |-> type, text |-> text, detail |-> detail, n |-> n]

KeyboardInterrupt == Exc("KeyboardInterrupt", "", <<>>, 0)

\* isinstance(e, Exception): KeyboardInterrupt derives from BaseException only
IsException(e) == e.type \in {"Exception", "ValueError"}

\* ------------------------------------------------------ provider messages
\* A message is the sequence of its words; the substring test of the code is
\* the test for a contiguous run of words.
Lower(w) ==
  CASE w = "No" -> "no"
    [] w = "Longer" -> "longer"
    [] w = "Available" -> "available"
    [] w = "Could" -> "could"
    [] w = "Pod" -> "pod"
    [] OTHER -> w

LowerMsg(m) == [i \in 1..Len(m) |-> Lower(m[i])]

Contains(hay, needle) ==
  \E i \in 1..(Len(hay) - Len(needle) + 1) :
    SubSeq(hay, i, i + Len(needle) - 1) = needle

IsTransient(m) ==
  \/ Contains(LowerMsg(m), <<"no", "longer", "available">>)
  \/ Contains(LowerMsg(m), <<"could", "not", "be", "created">>)

ProviderMessages ==
  { <<"spot", "No", "Longer", "Available">>,
    <<"Pod", "could", "not", "be", "created">>,
    <<"no", "longer", "any", "available">>,
    <<"unauthorized">> }

PodIds == {"pod-a", "pod-b"}

\* What run_graphql_query can do for a create mutation.
CreateResponses ==
  [kind : {"data"}, id : PodIds, msg : {<<>>}]
    \cup [kind : {"errors", "raise"}, id : {""}, msg : ProviderMessages]
    \cup [kind : {"interrupt"}, id : {""}, msg : {<<>>}]

NoInstance == [id |-> "", ssh |-> FALSE]

\* -------------------------------------------------------------------- Init
InitE2E ==
  /\ entry \in {"from_yaml", "deploy"}
  /\ cfgValid \in BOOLEAN
  /\ spot \in BOOLEAN
  /\ deploy_retries \in 0..MaxRetries
  /\ wait_for_ready \in BOOLEAN
  /\ health_check_retries \in (0..MaxPolls) \cup {HealthCheckRetriesDefault}
  \* run_e2e passes wait_for_ready=True and leaves health_check_retries alone
  /\ entry = "from_yaml" =>
       wait_for_ready /\ health_check_retries = HealthCheckRetriesDefault
  /\ entry = "deploy" =>
       cfgValid /\ health_check_retries # HealthCheckRetriesDefault
  /\ e2ePc = "init"
  /\ attempt = 0
  /\ last_error = <<>>
  /\ createLog = <<>>
  /\ sleeps = 0
  /\ created = ""
  /\ polls = 0
  /\ instance = NoInstance
  /\ pod_id = ""
  /\ exc = NoExc
  /\ remoteOutcome = "none"
  /\ downloadOutcome = "none"
  /\ deleteCalls = <<>>
  /\ deleteOutcome = "none"
  /\ status = "none"

\* ------------------------------------------------ runpod.bench.from_yaml
\* from_yaml calls run_e2e inside try; run_e2e validates the config before its
\* own try block and then calls deploy(**deploy_kwargs).
FromYaml ==
  /\ e2ePc = "init"
  /\ entry = "from_yaml"
  /\ IF cfgValid
       THEN /\ e2ePc' = "deploy_create"
            /\ exc' = exc
       ELSE /\ e2ePc' = "e2e_exit"
            /\ exc' = Exc("ValueError", "No 'runpod' section found in config", <<>>, 0)
  /\ UNCHANGED <<entry, cfgValid, spot, deploy_retries, wait_for_ready,
                 health_check_retries, attempt, last_error, createLog, sleeps,
                 created, polls, instance, pod_id, remoteOutcome,
                 downloadOutcome, deleteCalls, status>>
  /\ UNCHANGED deleteOutcome
  /\ UNCHANGED notE2E

\* The caller uses client.deploy directly.
CallDeploy ==
  /\ e2ePc = "init"
  /\ entry = "deploy"
  /\ e2ePc' = "deploy_create"
  /\ UNCHANGED <<entry, cfgValid, spot, deploy_retries, wait_for_ready,
                 health_check_retries, attempt, last_error, createLog, sleeps,
                 created, polls, instance, pod_id, exc, remoteOutcome,
                 downloadOutcome, deleteCalls, status>>
  /\ UNCHANGED deleteOutcome
  /\ UNCHANGED notE2E

\* ---------------------------------------------------------- client.deploy
\* Lines 174-198 once a pod dict is in hand: build the instance and either
\* wait for it or return it.
PodCreated(id) ==
  /\ created' = id
  /\ instance' = [id |-> id, ssh |-> FALSE]
  /\ e2ePc' = IF wait_for_ready THEN "deploy_wait" ELSE "deploy_exit"

\* One iteration of `for attempt in range(deploy_retries)`.
DeploySpotAttemptBug ==
  /\ e2ePc = "deploy_create"
  /\ spot
  /\ attempt < deploy_retries
  /\ \E r \in CreateResponses :
       /\ createLog' = Append(createLog, r)
       /\ attempt' = attempt + 1
       /\ IF r.kind = "data"
            THEN /\ PodCreated(r.id)
                 /\ UNCHANGED <<last_error, sleeps, exc>>
            ELSE IF r.kind = "interrupt"
            THEN /\ exc' = KeyboardInterrupt
                 /\ e2ePc' = "deploy_exit"
                 /\ UNCHANGED <<last_error, sleeps, created, instance>>
            ELSE /\ last_error' = r.msg
                 /\ sleeps' = sleeps + 1
                 /\ UNCHANGED <<e2ePc, exc, created, instance>>
  /\ UNCHANGED <<entry, cfgValid, spot, deploy_retries, wait_for_ready,
                 health_check_retries, polls, pod_id, remoteOutcome,
                 downloadOutcome, deleteCalls, status>>
  /\ UNCHANGED deleteOutcome
  /\ UNCHANGED notE2E

DeploySpotAttempt ==
  /\ e2ePc = "deploy_create"
  /\ spot
  /\ attempt < deploy_retries
  /\ \E r \in CreateResponses :
       /\ createLog' = Append(createLog, r)
       /\ attempt' = attempt + 1
       /\ IF r.kind = "data"
            THEN \* pod = result["data"]["podRentInterruptable"]; break
                 /\ PodCreated(r.id)
                 /\ UNCHANGED <<last_error, sleeps, exc>>
            ELSE IF r.kind = "interrupt"
            THEN /\ exc' = KeyboardInterrupt
                 /\ e2ePc' = "deploy_exit"
                 /\ UNCHANGED <<last_error, sleeps, created, instance>>
            ELSE IF IsTransient(r.msg)
            THEN \* error body or raised error: remember, sleep, continue
                 /\ last_error' = r.msg
                 /\ sleeps' = sleeps + 1
                 /\ UNCHANGED <<e2ePc, exc, created, instance>>
            ELSE \* raise Exception(error_msg) / re-raise
                 /\ exc' = Exc("Exception", "provider", r.msg, 0)
                 /\ e2ePc' = "deploy_exit"
                 /\ UNCHANGED <<last_error, sleeps, created, instance>>
  /\ UNCHANGED <<entry, cfgValid, spot, deploy_retries, wait_for_ready,
                 health_check_retries, polls, pod_id, remoteOutcome,
                 downloadOutcome, deleteCalls, status>>
  /\ UNCHANGED deleteOutcome
  /\ UNCHANGED notE2E

\* The loop ended without break: pod is None.
DeploySpotExhaustedBug ==
  /\ e2ePc = "deploy_create"
  /\ spot
  /\ attempt >= deploy_retries
  /\ exc' = Exc("Exception", "Failed to create spot instance", <<>>, deploy_retries)
  /\ e2ePc' = "deploy_exit"
  /\ UNCHANGED <<entry, cfgValid, spot, deploy_retries, wait_for_ready,
                 health_check_retries, attempt, last_error, createLog, sleeps,
                 created, polls, instance, pod_id, remoteOutcome,
                 downloadOutcome, deleteCalls, status>>
  /\ UNCHANGED deleteOutcome
  /\ UNCHANGED notE2E

DeploySpotExhausted ==
  /\ e2ePc = "deploy_create"
  /\ spot
  /\ attempt >= deploy_retries
  /\ exc' = Exc("Exception", "Failed to create spot instance", last_error,
                deploy_retries)
  /\ e2ePc' = "deploy_exit"
  /\ UNCHANGED <<entry, cfgValid, spot, deploy_retries, wait_for_ready,
                 health_check_retries, attempt, last_error, createLog, sleeps,
                 created, polls, instance, pod_id, remoteOutcome,
                 downloadOutcome, deleteCalls, status>>
  /\ UNCHANGED deleteOutcome
  /\ UNCHANGED notE2E

\* On-demand: one create call, no retry; an error body has no usable "data".
DeployOnDemand ==
  /\ e2ePc = "deploy_create"
  /\ ~spot
  /\ \E r \in CreateResponses :
       /\ createLog' = Append(createLog, r)
       /\ IF r.kind = "data"
            THEN /\ PodCreated(r.id)
                 /\ exc' = exc
            ELSE /\ exc' = CASE r.kind = "interrupt" -> KeyboardInterrupt
                             [] r.kind = "raise" -> Exc("Exception", "provider", r.msg, 0)
                             [] OTHER -> Exc("Exception", "result has no data", <<>>, 0)
                 /\ e2ePc' = "deploy_exit"
                 /\ UNCHANGED <<created, instance>>
  /\ UNCHANGED <<entry, cfgValid, spot, deploy_retries, wait_for_ready,
                 health_check_retries, attempt, last_error, sleeps, polls,
                 pod_id, remoteOutcome, downloadOutcome, deleteCalls, status>>
  /\ UNCHANGED deleteOutcome
  /\ UNCHANGED notE2E

\* ------------------------------------------------------ client.wait_for_pod
\* What one poll can observe of the pod.
PodObservations ==
  [queryFails : BOOLEAN, found : BOOLEAN, running : BOOLEAN,
   runtime : BOOLEAN, mapped : BOOLEAN, handshake : BOOLEAN]

\* The poll returns {"ready": True, "ssh": ssh_info}.
PollReady(o) ==
  /\ ~o.queryFails
  /\ o.found
  /\ o.running
  /\ o.runtime
  /\ o.mapped
  /\ o.handshake

WaitForPodPoll ==
  /\ e2ePc = "deploy_wait"
  /\ polls < health_check_retries
  /\ polls' = polls + 1
  /\ \E o \in PodObservations :
       IF PollReady(o)
         THEN /\ instance' = [instance EXCEPT !.ssh = TRUE]
              /\ e2ePc' = "deploy_exit"
         ELSE UNCHANGED <<instance, e2ePc>>
  /\ UNCHANGED <<entry, cfgValid, spot, deploy_retries, wait_for_ready,
                 health_check_retries, attempt, last_error, createLog, sleeps,
                 created, pod_id, exc, remoteOutcome, downloadOutcome,
                 deleteCalls, status>>
  /\ UNCHANGED deleteOutcome
  /\ UNCHANGED notE2E

\* KeyboardInterrupt in a poll or its sleep is no Exception: it leaves
\* wait_for_pod and deploy.
WaitForPodInterrupted ==
  /\ e2ePc = "deploy_wait"
  /\ polls < health_check_retries
  /\ exc' = KeyboardInterrupt
  /\ e2ePc' = "deploy_exit"
  /\ UNCHANGED <<entry, cfgValid, spot, deploy_retries, wait_for_ready,
                 health_check_retries, attempt, last_error, createLog, sleeps,
                 created, polls, instance, pod_id, remoteOutcome,
                 downloadOutcome, deleteCalls, status>>
  /\ UNCHANGED deleteOutcome
  /\ UNCHANGED notE2E

\* {"ready": False, "ssh": None}: deploy raises.
WaitForPodExhausted ==
  /\ e2ePc = "deploy_wait"
  /\ polls >= health_check_retries
  /\ exc' = Exc("Exception", "Pod failed to start", <<>>, health_check_retries)
  /\ e2ePc' = "deploy_exit"
  /\ UNCHANGED <<entry, cfgValid, spot, deploy_retries, wait_for_ready,
                 health_check_retries, attempt, last_error, createLog, sleeps,
                 created, polls, instance, pod_id, remoteOutcome,
                 downloadOutcome, deleteCalls, status>>
  /\ UNCHANGED deleteOutcome
  /\ UNCHANGED notE2E

\* deploy returns or raises to a direct caller.
DeployExitToCaller ==
  /\ e2ePc = "deploy_exit"
  /\ entry = "deploy"
  /\ e2ePc' = "done"
  /\ status' = IF exc = NoExc THEN "returned" ELSE "raised"
  /\ UNCHANGED <<entry, cfgValid, spot, deploy_retries, wait_for_ready,
                 health_check_retries, attempt, last_error, createLog, sleeps,
                 created, polls, instance, pod_id, exc, remoteOutcome,
                 downloadOutcome, deleteCalls>>
  /\ UNCHANGED deleteOutcome
  /\ UNCHANGED notE2E

\* --------------------------------------------------------- runner.run_e2e
\* `instance = deploy(**deploy_kwargs); pod_id = instance["id"]` inside the
\* try block of run_e2e, up to the call of run_remote.
DeployExitToE2E ==
  /\ e2ePc = "deploy_exit"
  /\ entry = "from_yaml"
  /\ IF exc = NoExc
       THEN /\ pod_id' = instance.id
            /\ IF instance.ssh
                 THEN /\ e2ePc' = "run_remote"
                      /\ exc' = exc
                 ELSE /\ e2ePc' = "except"
                      /\ exc' = Exc("Exception", "SSH info not available", <<>>, 0)
       ELSE \* deploy raised: the assignment to pod_id never happens
            /\ e2ePc' = IF IsException(exc) THEN "except" ELSE "finally"
            /\ UNCHANGED <<pod_id, exc>>
  /\ UNCHANGED <<entry, cfgValid, spot, deploy_retries, wait_for_ready,
                 health_check_retries, attempt, last_error, createLog, sleeps,
                 created, polls, instance, remoteOutcome, downloadOutcome,
                 deleteCalls, status>>
  /\ UNCHANGED deleteOutcome
  /\ UNCHANGED notE2E

Outcomes == {"ok", "Exception", "KeyboardInterrupt"}

\* run_remote(config, auto_remote_cfg)
RunRemote ==
  /\ e2ePc = "run_remote"
  /\ \E o \in Outcomes :
       /\ remoteOutcome' = o
       /\ IF o = "ok"
            THEN /\ e2ePc' = "download"
                 /\ exc' = exc
            ELSE IF o = "Exception"
            THEN /\ e2ePc' = "except"
                 /\ exc' = Exc("Exception", "remote run failed", <<>>, 0)
            ELSE /\ e2ePc' = "finally"
                 /\ exc' = KeyboardInterrupt
  /\ UNCHANGED <<entry, cfgValid, spot, deploy_retries, wait_for_ready,
                 health_check_retries, attempt, last_error, createLog, sleeps,
                 created, polls, instance, pod_id, downloadOutcome,
                 deleteCalls, status>>
  /\ UNCHANGED deleteOutcome
  /\ UNCHANGED notE2E

\* _download_results: it returns after all files were copied ("ok"), when the
\* remote directory is missing ("not_found"), or after the copy of a file
\* failed and was printed ("file_failed"); it raises when the SSH connection
\* or a remote command fails, or on Ctrl-C.
DownloadResultsOutcomes ==
  {"ok", "not_found", "file_failed", "Exception", "KeyboardInterrupt"}

\* A call site without the try/except around _download_results.
DownloadUnguarded ==
  /\ e2ePc = "download"
  /\ \E o \in DownloadResultsOutcomes :
       /\ downloadOutcome' = o
       /\ exc' = IF o = "KeyboardInterrupt" THEN KeyboardInterrupt
                ELSE IF o = "Exception"
                THEN Exc("Exception", "download failed", <<>>, 0)
                ELSE exc
       /\ e2ePc' = IF o = "Exception" THEN "except" ELSE "finally"
  /\ UNCHANGED <<entry, cfgValid, spot, deploy_retries, wait_for_ready,
                 health_check_retries, attempt, last_error, createLog, sleeps,
                 created, polls, instance, pod_id, remoteOutcome,
                 deleteCalls, status>>
  /\ UNCHANGED deleteOutcome
  /\ UNCHANGED notE2E

\* try: _download_results(...) except Exception: print warning
Download ==
  /\ e2ePc = "download"
  /\ \E o \in DownloadResultsOutcomes :
       /\ downloadOutcome' = o
       /\ exc' = IF o = "KeyboardInterrupt" THEN KeyboardInterrupt ELSE exc
  /\ e2ePc' = "finally"
  /\ UNCHANGED <<entry, cfgValid, spot, deploy_retries, wait_for_ready,
                 health_check_retries, attempt, last_error, createLog, sleeps,
                 created, polls, instance, pod_id, remoteOutcome,
                 deleteCalls, status>>
  /\ UNCHANGED deleteOutcome
  /\ UNCHANGED notE2E

\* except Exception as e: print; raise
ExceptHandler ==
  /\ e2ePc = "except"
  /\ e2ePc' = "finally"
  /\ UNCHANGED <<entry, cfgValid, spot, deploy_retries, wait_for_ready,
                 health_check_retries, attempt, last_error, createLog, sleeps,
                 created, polls, instance, pod_id, exc, remoteOutcome,
                 downloadOutcome, deleteCalls, status>>
  /\ UNCHANGED deleteOutcome
  /\ UNCHANGED notE2E

\* finally: if pod_id: try: delete(pod_id=pod_id) except Exception: warn
FinallyBug ==
  /\ e2ePc = "finally"
  /\ IF pod_id # "" /\ exc = NoExc
       THEN \E o \in Outcomes :
              /\ deleteCalls' = Append(deleteCalls, pod_id)
              /\ deleteOutcome' = o
              /\ exc' = IF o = "KeyboardInterrupt" THEN KeyboardInterrupt ELSE exc
       ELSE UNCHANGED <<deleteCalls, deleteOutcome, exc>>
  /\ e2ePc' = "e2e_exit"
  /\ UNCHANGED <<entry, cfgValid, spot, deploy_retries, wait_for_ready,
                 health_check_retries, attempt, last_error, createLog, sleeps,
                 created, polls, instance, pod_id, remoteOutcome,
                 downloadOutcome, status>>
  /\ UNCHANGED notE2E

\* A cleanup block without the inner try: the failure of delete leaves it.
FinallyRaises ==
  /\ e2ePc = "finally"
  /\ IF pod_id # ""
       THEN \E o \in Outcomes :
              /\ deleteCalls' = Append(deleteCalls, pod_id)
              /\ deleteOutcome' = o
              /\ exc' = IF o = "KeyboardInterrupt" THEN KeyboardInterrupt
                        ELSE IF o = "Exception"
                          THEN Exc("Exception", "delete failed", <<>>, 0)
                        ELSE exc
       ELSE UNCHANGED <<deleteCalls, deleteOutcome, exc>>
  /\ e2ePc' = "e2e_exit"
  /\ UNCHANGED <<entry, cfgValid, spot, deploy_retries, wait_for_ready,
                 health_check_retries, attempt, last_error, createLog, sleeps,
                 created, polls, instance, pod_id, remoteOutcome,
                 downloadOutcome, status>>
  /\ UNCHANGED notE2E

Finally ==
  /\ e2ePc = "finally"
  /\ IF pod_id # ""
       THEN \E o \in Outcomes :
              /\ deleteCalls' = Append(deleteCalls, pod_id)
              /\ deleteOutcome' = o
              /\ exc' = IF o = "KeyboardInterrupt" THEN KeyboardInterrupt ELSE exc
       ELSE UNCHANGED <<deleteCalls, deleteOutcome, exc>>
  /\ e2ePc' = "e2e_exit"
  /\ UNCHANGED <<entry, cfgValid, spot, deploy_retries, wait_for_ready,
                 health_check_retries, attempt, last_error, createLog, sleeps,
                 created, polls, instance, pod_id, remoteOutcome,
                 downloadOutcome, status>>
  /\ UNCHANGED notE2E

\* runpod.bench.from_yaml: try: run_e2e(config); return success
\*                         except Exception as e: return error
E2EExit ==
  /\ e2ePc = "e2e_exit"
  /\ status' = IF exc = NoExc THEN "success"
               ELSE IF IsException(exc) THEN "error"
               ELSE "escaped"
  /\ e2ePc' = "done"
  /\ UNCHANGED <<entry, cfgValid, spot, deploy_retries, wait_for_ready,
                 health_check_retries, attempt, last_error, createLog, sleeps,
                 created, polls, instance, pod_id, exc, remoteOutcome,
                 downloadOutcome, deleteCalls>>
  /\ UNCHANGED deleteOutcome
  /\ UNCHANGED notE2E

\* ========================================================================
\* vllm.bench._run_benchmarks and the server it supervises
\* ========================================================================
Ports == {8000, 8001}

\* One plan entry, as far as the sequencer looks at it: the port of its
\* server and the number of its bench configurations.
Entries == [port : Ports, nbench : 0..MaxBench]

Plans == UNION { [1..n -> Entries] : n \in 1..MaxEntries }

\* The outside world at rest (no other subsystem is running).
IdleE2E ==
  /\ entry = "none"
  /\ cfgValid = FALSE
  /\ spot = FALSE
  /\ deploy_retries = 0
  /\ wait_for_ready = FALSE
  /\ health_check_retries = 0
  /\ e2ePc = "idle"
  /\ attempt = 0
  /\ last_error = <<>>
  /\ createLog = <<>>
  /\ sleeps = 0
  /\ created = ""
  /\ polls = 0
  /\ instance = NoInstance
  /\ pod_id = ""
  /\ exc = NoExc
  /\ remoteOutcome = "none"
  /\ downloadOutcome = "none"
  /\ deleteCalls = <<>>
  /\ deleteOutcome = "none"
  /\ status = "none"

IdleSeq ==
  /\ engine = "none"
  /\ max_attempts = 0
  /\ plan = <<>>
  /\ idx = 1
  /\ seqPc = "idle"
  /\ proc = "none"
  /\ serverPort = 0
  /\ portBusy = {}
  /\ health_attempt = 0
  /\ healthResult = "none"
  /\ startReturned = FALSE
  /\ bench_index = 0
  /\ nonzeroExit = FALSE
  /\ stops = 0
  /\ probes = 0
  /\ released = FALSE
  /\ trials_alive = 0
  /\ seqExc = NoExc

InitSeq ==
  /\ engine \in {"vllm", "sglang"}
  /\ max_attempts \in 0..MaxAttempts
  \* SGLangServer._wait_for_health counts a positive max_attempts down
  /\ engine = "sglang" => max_attempts > 0
  /\ plan \in Plans
  /\ idx = 1
  /\ seqPc = "entry"
  /\ proc = "none"
  /\ serverPort = 0
  /\ portBusy = {}
  /\ health_attempt = 0
  /\ healthResult = "none"
  /\ startReturned = FALSE
  /\ bench_index = 0
  /\ nonzeroExit = FALSE
  /\ stops = 0
  /\ probes = 0
  /\ released = FALSE
  /\ trials_alive = 0
  /\ seqExc = NoExc

\* `for run_cfg in config.get("benchmark", [])` up to the with statement:
\* an entry without bench configurations is skipped (continue).
EntryBegin ==
  /\ seqPc = "entry"
  /\ idx <= Len(plan)
  /\ IF plan[idx].nbench = 0
       THEN /\ idx' = idx + 1
            /\ seqPc' = seqPc
       ELSE /\ idx' = idx
            /\ seqPc' = "enter"
  /\ startReturned' = FALSE
  /\ healthResult' = "none"
  /\ bench_index' = 0
  /\ nonzeroExit' = FALSE
  /\ stops' = 0
  /\ UNCHANGED <<engine, max_attempts, plan, proc, serverPort, portBusy,
                 health_attempt, probes, released, seqExc>>
  /\ UNCHANGED trials_alive
  /\ UNCHANGED notSeq

\* The loop over the plan is over: return results.
PlanDone ==
  /\ seqPc = "entry"
  /\ idx > Len(plan)
  /\ seqPc' = "done"
  /\ UNCHANGED <<engine, max_attempts, plan, idx, proc, serverPort, portBusy,
                 health_attempt, healthResult, startReturned, bench_index,
                 nonzeroExit, stops, probes, released, seqExc>>
  /\ UNCHANGED trials_alive
  /\ UNCHANGED notSeq

\* __enter__ -> start(): subprocess.Popen(cmd); the child binds its port.
ServerStart ==
  /\ seqPc = "enter"
  /\ proc' = "running"
  /\ serverPort' = plan[idx].port
  /\ portBusy' = portBusy \cup {plan[idx].port}
  /\ health_attempt' = 0
  /\ seqPc' = "health"
  /\ UNCHANGED <<engine, max_attempts, plan, idx, healthResult, startReturned,
                 bench_index, nonzeroExit, stops, probes, released, seqExc>>
  /\ UNCHANGED trials_alive
  /\ UNCHANGED notSeq

\* _wait_for_health has used up its attempts (after the failed probe numbered
\* health_attempt): VLLMServer tests `max_attempts > 0 and attempt >=
\* max_attempts`, SGLangServer leaves `for attempt in range(max_attempts)`.
HealthExhausted(n) ==
  IF engine = "vllm" THEN max_attempts > 0 /\ n >= max_attempts
  ELSE n >= max_attempts

\* __enter__: `self.start(); return self` - the result of start() is dropped.
Enter(healthy) ==
  /\ healthResult' = IF healthy THEN "True" ELSE "False"
  /\ health_attempt' = 0
  /\ startReturned' = TRUE
  /\ seqPc' = "trials"
  /\ seqExc' = seqExc

\* One GET /health.  Only a live child can answer 200.
HealthProbe ==
  /\ seqPc = "health"
  /\ \E ok \in {TRUE, FALSE} :
       /\ ok => proc = "running"
       /\ IF ok
            THEN Enter(TRUE)
            ELSE IF HealthExhausted(health_attempt + 1)
            THEN Enter(FALSE)
            ELSE \* sleep and probe again; the unlimited mode reads the
                 \* count only modulo 10, for its progress line, and the
                 \* count is kept here modulo MaxAttempts + 1
                 /\ health_attempt' =
                      (health_attempt + 1) % (MaxAttempts + 1)
                 /\ UNCHANGED <<healthResult, startReturned, seqPc, seqExc>>
  /\ UNCHANGED <<engine, max_attempts, plan, idx, proc, serverPort, portBusy,
                 bench_index, nonzeroExit, stops, probes, released>>
  /\ UNCHANGED trials_alive
  /\ UNCHANGED notSeq

\* KeyboardInterrupt while start() polls or sleeps: __enter__ raises, so
\* __exit__ is not called.
HealthInterrupted ==
  /\ seqPc = "health"
  /\ seqExc' = KeyboardInterrupt
  /\ seqPc' = "raised"
  /\ UNCHANGED <<engine, max_attempts, plan, idx, proc, serverPort, portBusy,
                 health_attempt, healthResult, startReturned, bench_index,
                 nonzeroExit, stops, probes, released>>
  /\ UNCHANGED trials_alive
  /\ UNCHANGED notSeq

TrialOutcomes == {"exit0", "exit1", "Exception", "KeyboardInterrupt"}

\* One pass of `for i, bench_cfg in enumerate(bench_configs)` begins:
\* run_benchmark starts the child of the trial (subprocess.Popen).
TrialStart ==
  /\ seqPc = "trials"
  /\ bench_index < plan[idx].nbench
  /\ trials_alive' = trials_alive + 1
  /\ seqPc' = "trial"
  /\ UNCHANGED <<engine, max_attempts, plan, idx, proc, serverPort, portBusy,
                 health_attempt, healthResult, startReturned, bench_index,
                 nonzeroExit, stops, probes, released, seqExc>>
  /\ UNCHANGED notSeq

\* run_benchmark ends: process.wait() returns the exit code of the child,
\* which the sequencer drops; or an exception leaves the streaming loop, and
\* nothing waits for the child or ends it.
Trial ==
  /\ seqPc = "trial"
  /\ bench_index' = bench_index + 1
  /\ \E o \in TrialOutcomes :
       IF o \in {"exit0", "exit1"}
         THEN /\ nonzeroExit' = (nonzeroExit \/ o = "exit1")
              /\ trials_alive' = trials_alive - 1
              /\ seqPc' = "trials"
              /\ UNCHANGED seqExc
         ELSE /\ seqExc' = IF o = "Exception"
                             THEN Exc("Exception", "run_benchmark", <<>>, 0)
                             ELSE KeyboardInterrupt
              /\ seqPc' = "exit"
              /\ UNCHANGED <<nonzeroExit, trials_alive>>
  /\ UNCHANGED <<engine, max_attempts, plan, idx, proc, serverPort, portBusy,
                 health_attempt, healthResult, startReturned, stops, probes,
                 released>>
  /\ UNCHANGED notSeq

\* OS side: a trial child that run_benchmark left behind ends on its own.
TrialChildExits ==
  /\ seqPc \notin {"idle", "trial"}
  /\ trials_alive > 0
  /\ trials_alive' = trials_alive - 1
  /\ UNCHANGED <<engine, max_attempts, plan, idx, seqPc, proc, serverPort,
                 portBusy, health_attempt, healthResult, startReturned,
                 bench_index, nonzeroExit, stops, probes, released, seqExc>>
  /\ UNCHANGED notSeq

\* The with body ran to its end.
TrialsDone ==
  /\ seqPc = "trials"
  /\ bench_index >= plan[idx].nbench
  /\ seqPc' = "exit"
  /\ UNCHANGED <<engine, max_attempts, plan, idx, proc, serverPort, portBusy,
                 health_attempt, healthResult, startReturned, bench_index,
                 nonzeroExit, stops, probes, released, seqExc>>
  /\ UNCHANGED trials_alive
  /\ UNCHANGED notSeq

\* __exit__ -> stop(): return at once when there is no live child, else
\* send SIGINT.
StopBeginBug ==
  /\ seqPc = "exit"
  /\ IF seqExc # NoExc
       THEN /\ seqPc' = "with_exit"
            /\ UNCHANGED <<stops, probes, released>>
       ELSE /\ stops' = stops + 1
            /\ probes' = 0
            /\ released' = FALSE
            /\ seqPc' = IF proc = "running" THEN "stop_wait" ELSE "with_exit"
  /\ UNCHANGED <<engine, max_attempts, plan, idx, proc, serverPort, portBusy,
                 health_attempt, healthResult, startReturned, bench_index,
                 nonzeroExit, seqExc>>
  /\ UNCHANGED trials_alive
  /\ UNCHANGED notSeq

StopBegin ==
  /\ seqPc = "exit"
  /\ stops' = stops + 1
  /\ probes' = 0
  /\ released' = FALSE
  /\ seqPc' = IF proc = "running" THEN "stop_wait" ELSE "with_exit"
  /\ UNCHANGED <<engine, max_attempts, plan, idx, proc, serverPort, portBusy,
                 health_attempt, healthResult, startReturned, bench_index,
                 nonzeroExit, seqExc>>
  /\ UNCHANGED trials_alive
  /\ UNCHANGED notSeq

\* process.wait(timeout=30): the child exits on SIGINT in time, or the wait
\* times out and kill(); wait() ends it.  Either way the child is gone.
StopWait ==
  /\ seqPc = "stop_wait"
  /\ proc' = "exited"
  /\ seqPc' = "stop_probe"
  /\ UNCHANGED <<engine, max_attempts, plan, idx, serverPort, portBusy,
                 health_attempt, healthResult, startReturned, bench_index,
                 nonzeroExit, stops, probes, released, seqExc>>
  /\ UNCHANGED trials_alive
  /\ UNCHANGED notSeq

\* One pass of `for _ in range(30)`: bind the port; on OSError sleep 1 s.
StopProbe ==
  /\ seqPc = "stop_probe"
  /\ probes < PortProbes
  /\ IF serverPort \in portBusy
       THEN /\ probes' = probes + 1
            /\ UNCHANGED <<released, seqPc>>
       ELSE /\ released' = TRUE
            /\ seqPc' = "with_exit"
            /\ probes' = 0
  /\ UNCHANGED <<engine, max_attempts, plan, idx, proc, serverPort, portBusy,
                 health_attempt, healthResult, startReturned, bench_index,
                 nonzeroExit, stops, seqExc>>
  /\ UNCHANGED trials_alive
  /\ UNCHANGED notSeq

\* All 30 probes failed: the loop ends and stop() returns all the same.
StopProbeExhausted ==
  /\ seqPc = "stop_probe"
  /\ probes >= PortProbes
  /\ seqPc' = "with_exit"
  /\ probes' = 0
  /\ UNCHANGED <<engine, max_attempts, plan, idx, proc, serverPort, portBusy,
                 health_attempt, healthResult, startReturned, bench_index,
                 nonzeroExit, stops, released, seqExc>>
  /\ UNCHANGED trials_alive
  /\ UNCHANGED notSeq

\* After the with statement: an exception in flight leaves _run_benchmarks,
\* otherwise time.sleep(5) and the next entry.
LeaveEntry ==
  /\ seqPc = "with_exit"
  /\ IF seqExc # NoExc
       THEN /\ seqPc' = "raised"
            /\ idx' = idx
       ELSE /\ seqPc' = "entry"
            /\ idx' = idx + 1
  /\ UNCHANGED <<engine, max_attempts, plan, proc, serverPort, portBusy,
                 health_attempt, healthResult, startReturned, bench_index,
                 nonzeroExit, stops, probes, released, seqExc>>
  /\ UNCHANGED trials_alive
  /\ UNCHANGED notSeq

\* OS side: the server child dies on its own (crash, OOM).
ChildExits ==
  /\ seqPc \in {"health", "trials", "trial", "exit"}
  /\ proc = "running"
  /\ proc' = "exited"
  /\ UNCHANGED <<engine, max_attempts, plan, idx, seqPc, serverPort, portBusy,
                 health_attempt, healthResult, startReturned, bench_index,
                 nonzeroExit, stops, probes, released, seqExc>>
  /\ UNCHANGED trials_alive
  /\ UNCHANGED notSeq

\* OS side: the port of a dead child becomes bindable again.
PortFreed ==
  /\ seqPc \notin {"idle", "done", "raised"}
  /\ \E p \in portBusy :
       /\ proc = "running" => p # serverPort
       /\ portBusy' = portBusy \ {p}
  /\ UNCHANGED <<engine, max_attempts, plan, idx, seqPc, proc, serverPort,
                 health_attempt, healthResult, startReturned, bench_index,
                 nonzeroExit, stops, probes, released, seqExc>>
  /\ UNCHANGED trials_alive
  /\ UNCHANGED notSeq

NextSeq ==
  \/ EntryBegin
  \/ PlanDone
  \/ ServerStart
  \/ HealthProbe
  \/ HealthInterrupted
  \/ TrialStart
  \/ Trial
  \/ TrialChildExits
  \/ TrialsDone
  \/ StopBegin
  \/ StopWait
  \/ StopProbe
  \/ StopProbeExhausted
  \/ LeaveEntry
  \/ ChildExits
  \/ PortFreed

\* ========================================================================
\* skypilot.bench.from_yaml: launch, download, teardown.

IdleSky ==
  /\ skyCfg = FALSE
  /\ nDirs = 0
  /\ skyPc = "idle"
  /\ dirIdx = 1
  /\ job_id = 0
  /\ clusterUp = FALSE
  /\ downloadLog = <<>>
  /\ teardownLog = <<>>
  /\ skyExc = NoExc
  /\ skyStatus = "none"

InitSky ==
  /\ skyCfg \in BOOLEAN
  /\ nDirs \in 0..MaxDirs
  /\ skyPc = "start"
  /\ dirIdx = 1
  /\ job_id = 0
  /\ clusterUp = FALSE
  /\ downloadLog = <<>>
  /\ teardownLog = <<>>
  /\ skyExc = NoExc
  /\ skyStatus = "none"

\* _get_results_config: save_result is True when some entry saves results.
save_result == nDirs > 0

\* Up to the try statement: `if not skypilot_cfg: raise ValueError(...)`.
SkyBegin ==
  /\ skyPc = "start"
  /\ IF skyCfg
       THEN /\ skyPc' = "launch"
            /\ UNCHANGED <<skyExc, skyStatus>>
       ELSE /\ skyExc' = Exc("ValueError", "No 'skypilot' section found in config",
                             <<>>, 0)
            /\ skyStatus' = "raised"
            /\ skyPc' = "done"
  /\ UNCHANGED <<skyCfg, nDirs, dirIdx, job_id, clusterUp, downloadLog,
                 teardownLog>>
  /\ UNCHANGED notSky

LaunchOutcomes == {"job", "nojob", "Exception", "KeyboardInterrupt"}

\* launch_cluster(..., down=False): sky.launch, stream_and_get, tail_logs.
\* When it raises, the cluster may or may not have been provisioned.
LaunchCluster ==
  /\ skyPc = "launch"
  /\ \E o \in LaunchOutcomes, up \in BOOLEAN :
       IF o \in {"job", "nojob"}
         THEN /\ up
              /\ clusterUp' = TRUE
              /\ job_id' = IF o = "job" THEN 1 ELSE 0
              /\ dirIdx' = 1
              /\ skyPc' = IF save_result THEN "download" ELSE "teardown"
              /\ UNCHANGED skyExc
         ELSE /\ clusterUp' = up
              /\ skyExc' = IF o = "Exception"
                             THEN Exc("Exception", "launch_cluster", <<>>, 0)
                             ELSE KeyboardInterrupt
              /\ skyPc' = IF o = "Exception" THEN "except_exc" ELSE "except_ki"
              /\ UNCHANGED <<job_id, dirIdx>>
  /\ UNCHANGED <<skyCfg, nDirs, downloadLog, teardownLog, skyStatus>>
  /\ UNCHANGED notSky

DownloadOutcomes == {"success", "failed", "Exception", "KeyboardInterrupt"}

\* One pass of `for result_dir in results_cfg["result_dirs"]`: a status other
\* than success and an Exception are printed as a warning; a
\* KeyboardInterrupt leaves the loop and the try body.
DownloadResultDir ==
  /\ skyPc = "download"
  /\ dirIdx <= nDirs
  /\ \E o \in DownloadOutcomes :
       /\ downloadLog' = Append(downloadLog, o)
       /\ IF o = "KeyboardInterrupt"
            THEN /\ skyExc' = KeyboardInterrupt
                 /\ skyPc' = "except_ki"
                 /\ UNCHANGED dirIdx
            ELSE /\ dirIdx' = dirIdx + 1
                 /\ skyPc' = IF dirIdx + 1 > nDirs THEN "teardown" ELSE "download"
                 /\ UNCHANGED skyExc
  /\ UNCHANGED <<skyCfg, nDirs, job_id, clusterUp, teardownLog, skyStatus>>
  /\ UNCHANGED notSky

\* teardown_cluster(cluster_name): sky.down; sky.get.  The effect on the
\* cluster of a call that ended as o.
TornDown(o) == IF o = "ok" THEN FALSE ELSE clusterUp

\* Step 3 inside the try body: an Exception of teardown_cluster is printed.
TeardownInTry ==
  /\ skyPc = "teardown"
  /\ \E o \in {"ok", "Exception", "KeyboardInterrupt"} :
       /\ teardownLog' = Append(teardownLog, o)
       /\ clusterUp' = TornDown(o)
       /\ IF o = "KeyboardInterrupt"
            THEN /\ skyExc' = KeyboardInterrupt
                 /\ skyPc' = "except_ki"
            ELSE /\ skyPc' = "report"
                 /\ UNCHANGED skyExc
  /\ UNCHANGED <<skyCfg, nDirs, dirIdx, job_id, downloadLog, skyStatus>>
  /\ UNCHANGED notSky

\* The prints after step 3 and `return {"status": "success", ...}`; Ctrl-C
\* can still arrive while the try body prints.
ReportSuccess ==
  /\ skyPc = "report"
  /\ \E interrupted \in BOOLEAN :
       IF interrupted
         THEN /\ skyExc' = KeyboardInterrupt
              /\ skyPc' = "except_ki"
              /\ UNCHANGED skyStatus
         ELSE /\ skyStatus' = "success"
              /\ skyPc' = "done"
              /\ UNCHANGED skyExc
  /\ UNCHANGED <<skyCfg, nDirs, dirIdx, job_id, clusterUp, downloadLog,
                 teardownLog>>
  /\ UNCHANGED notSky

\* A handler without its teardown_cluster call.
ExceptKeyboardInterruptNoTeardown ==
  /\ skyPc = "except_ki"
  /\ skyStatus' = "interrupted"
  /\ skyExc' = NoExc
  /\ skyPc' = "done"
  /\ UNCHANGED <<skyCfg, nDirs, dirIdx, job_id, clusterUp, downloadLog,
                 teardownLog>>
  /\ UNCHANGED notSky

\* `except KeyboardInterrupt:` teardown_cluster in its own try/except
\* Exception, then return {"status": "interrupted", ...}.
ExceptKeyboardInterrupt ==
  /\ skyPc = "except_ki"
  /\ \E o \in {"ok", "Exception"} :
       /\ teardownLog' = Append(teardownLog, o)
       /\ clusterUp' = TornDown(o)
  /\ skyStatus' = "interrupted"
  /\ skyExc' = NoExc
  /\ skyPc' = "done"
  /\ UNCHANGED <<skyCfg, nDirs, dirIdx, job_id, downloadLog>>
  /\ UNCHANGED notSky

\* `except Exception as e:` teardown_cluster in its own try/except
\* Exception, then return {"status": "error", ...}.
ExceptException ==
  /\ skyPc = "except_exc"
  /\ \E o \in {"ok", "Exception"} :
       /\ teardownLog' = Append(teardownLog, o)
       /\ clusterUp' = TornDown(o)
  /\ skyStatus' = "error"
  /\ skyExc' = NoExc
  /\ skyPc' = "done"
  /\ UNCHANGED <<skyCfg, nDirs, dirIdx, job_id, downloadLog>>
  /\ UNCHANGED notSky

NextSky ==
  \/ SkyBegin
  \/ LaunchCluster
  \/ DownloadResultDir
  \/ TeardownInTry
  \/ ReportSuccess
  \/ ExceptKeyboardInterrupt
  \/ ExceptException

\* ========================================================================
\* runpod.core.client.delete / find_by_name against the provider's pod list

PodNames == {"bench-a", "bench-b"}

PodRecords == [id : PodIds, name : PodNames]

\* runpod.get_pods(): a list of pods, each id at most once.
PodLists ==
  { l \in UNION { [1..n -> PodRecords] : n \in 0..Cardinality(PodIds) } :
      \A i, j \in 1..Len(l) : l[i].id = l[j].id => i = j }

NoResult == [status |-> "none", id |-> "", name |-> ""]

IdleDelete ==
  /\ pods = <<>>
  /\ delPc = "idle"
  /\ argPodId = ""
  /\ argName = ""
  /\ listing = <<>>
  /\ resolvedId = ""
  /\ terminateCalls = <<>>
  /\ termBefore = 0
  /\ delResult = NoResult
  /\ delExc = NoExc
  /\ delCalls = 0

InitDelete ==
  /\ pods \in PodLists
  /\ delPc = "call"
  /\ argPodId = ""
  /\ argName = ""
  /\ listing = <<>>
  /\ resolvedId = ""
  /\ terminateCalls = <<>>
  /\ termBefore = 0
  /\ delResult = NoResult
  /\ delExc = NoExc
  /\ delCalls = 0

\* The caller invokes delete(pod_id=..., name=...); "" stands for None.
DeleteEnter ==
  /\ delPc \in {"call", "done"}
  /\ delCalls < MaxDeletes
  /\ \E id \in PodIds \cup {""}, nm \in PodNames \cup {""} :
       /\ argPodId' = id
       /\ argName' = nm
       /\ resolvedId' = id
  /\ delCalls' = delCalls + 1
  /\ termBefore' = Len(terminateCalls)
  /\ listing' = <<>>
  /\ delResult' = NoResult
  /\ delExc' = NoExc
  /\ delPc' = "resolve"
  /\ UNCHANGED <<pods, terminateCalls>>
  /\ UNCHANGED notDelete

\* A lookup that returns the first pod of the listing, whatever its name.
FirstPod(l, nm) == IF l = <<>> THEN NoInstance ELSE Head(l)

\* find_by_name: the first pod of the listing whose name is `name`.
RECURSIVE find_by_name(_, _)
find_by_name(l, nm) ==
  IF l = <<>> THEN NoInstance
  ELSE IF Head(l).name = nm THEN Head(l)
  ELSE find_by_name(Tail(l), nm)

\* `if name and not pod_id:` resolve the name by listing; `if not pod_id:`
\* raise; runpod.get_pods() itself may fail.
DeleteResolve ==
  /\ delPc = "resolve"
  /\ IF argName # "" /\ argPodId = ""
       THEN \E o \in {"ok", "Exception"} :
              IF o = "Exception"
                THEN /\ delExc' = Exc("Exception", "get_pods", <<>>, 0)
                     /\ delPc' = "done"
                     /\ UNCHANGED <<listing, resolvedId>>
                ELSE /\ listing' = pods
                     /\ IF find_by_name(pods, argName) = NoInstance
                          THEN /\ delExc' = Exc("Exception", "Pod with name not found",
                                                <<>>, 0)
                               /\ delPc' = "done"
                               /\ UNCHANGED resolvedId
                          ELSE /\ resolvedId' = find_by_name(pods, argName).id
                               /\ delPc' = "terminate"
                               /\ UNCHANGED delExc
       ELSE /\ IF argPodId = ""
                 THEN /\ delExc' = Exc("Exception", "Either pod_id or name is required",
                                       <<>>, 0)
                      /\ delPc' = "done"
                 ELSE /\ delPc' = "terminate"
                      /\ UNCHANGED delExc
            /\ UNCHANGED <<listing, resolvedId>>
  /\ UNCHANGED <<pods, argPodId, argName, terminateCalls, termBefore, delResult,
                 delCalls>>
  /\ UNCHANGED notDelete

\* The provider's pod list without the pod of this id.
RECURSIVE Without(_, _)
Without(l, id) ==
  IF l = <<>> THEN <<>>
  ELSE IF Head(l).id = id THEN Without(Tail(l), id)
  ELSE <<Head(l)>> \o Without(Tail(l), id)

\* runpod.terminate_pod(pod_id); return {"status": "deleted", ...}.  The
\* library call returns or raises (API error, network).
DeleteTerminate ==
  /\ delPc = "terminate"
  /\ terminateCalls' = Append(terminateCalls, resolvedId)
  /\ \E o \in {"ok", "Exception"} :
       IF o = "ok"
         THEN /\ pods' = Without(pods, resolvedId)
              /\ delResult' = [status |-> "deleted", id |-> resolvedId,
                               name |-> argName]
              /\ UNCHANGED delExc
         ELSE /\ delExc' = Exc("Exception", "terminate_pod", <<>>, 0)
              /\ UNCHANGED <<pods, delResult>>
  /\ delPc' = "done"
  /\ UNCHANGED <<argPodId, argName, listing, resolvedId, termBefore, delCalls>>
  /\ UNCHANGED notDelete

\* Provider side: a pod is terminated by someone else (dashboard, spot
\* reclaim) at any moment.
PodVanishes ==
  /\ delPc \in {"call", "resolve", "terminate"}
  /\ \E i \in 1..Len(pods) : pods' = Without(pods, pods[i].id)
  /\ UNCHANGED <<delPc, argPodId, argName, listing, resolvedId, terminateCalls,
                 termBefore, delResult, delExc, delCalls>>
  /\ UNCHANGED notDelete

NextDelete ==
  \/ DeleteEnter
  \/ DeleteResolve
  \/ DeleteTerminate
  \/ PodVanishes

\* ========================================================================
\* runpod.core.client.wait_for_pod / get_ssh_info / check_ssh in detail

\* One entry of pod["runtime"]["ports"]; "" and 0 stand for a missing ip
\* and a missing publicPort.
PortMappings ==
  [privatePort : {22, 8000}, ip : {"", "10.0.0.1"}, publicPort : {0, 2222, 2223}]

PortLists == UNION { [1..n -> PortMappings] : n \in 0..MaxPorts }

NoSshInfo == [ip |-> "", port |-> 0]

NoWaitResult == [ready |-> FALSE, ssh |-> NoSshInfo, returned |-> FALSE]

\* A scan that takes the first usable mapping, whatever its private port.
RECURSIVE AnyMapping(_)
AnyMapping(ports) ==
  IF ports = <<>> THEN NoSshInfo
  ELSE IF Head(ports).ip # "" /\ Head(ports).publicPort # 0
  THEN [ip |-> Head(ports).ip, port |-> Head(ports).publicPort]
  ELSE AnyMapping(Tail(ports))

\* get_ssh_info, the scan of runtime["ports"]: the first entry with
\* privatePort 22 and a truthy ip and publicPort, else None.
RECURSIVE get_ssh_info(_)
get_ssh_info(ports) ==
  IF ports = <<>> THEN NoSshInfo
  ELSE IF /\ Head(ports).privatePort = 22
          /\ Head(ports).ip # ""
          /\ Head(ports).publicPort # 0
  THEN [ip |-> Head(ports).ip, port |-> Head(ports).publicPort]
  ELSE get_ssh_info(Tail(ports))

IdleWait ==
  /\ retry = 0
  /\ wPc = "idle"
  /\ wI = 0
  /\ wObserved = [poll |-> 0, pod |-> "none"]
  /\ wPorts = <<>>
  /\ ssh_info = NoSshInfo
  /\ handshakes = <<>>
  /\ wResult = NoWaitResult
  /\ wExc = NoExc

InitWait ==
  /\ retry \in 0..MaxPolls
  /\ wPc = "query"
  /\ wI = 0
  /\ wObserved = [poll |-> 0, pod |-> "none"]
  /\ wPorts = <<>>
  /\ ssh_info = NoSshInfo
  /\ handshakes = <<>>
  /\ wResult = NoWaitResult
  /\ wExc = NoExc

\* What runpod.get_pod(pod_id) can answer in wait_for_pod: it raises, returns
\* None, a pod that is not RUNNING, a RUNNING pod without runtime, or a
\* RUNNING pod with runtime.
GetPodAnswers == {"raises", "none", "not_running", "no_runtime", "running"}

\* Poll number wI + 1, up to the call of get_ssh_info.  Every branch that
\* does not go on ends in time.sleep(sleep_time).
WaitQueryPod ==
  /\ wPc = "query"
  /\ wI < retry
  /\ \E a \in GetPodAnswers :
       /\ wObserved' = [poll |-> wI + 1, pod |-> a]
       /\ wPc' = IF a = "running" THEN "ssh_info" ELSE "sleep"
  /\ UNCHANGED <<retry, wI, wPorts, ssh_info, handshakes, wResult, wExc>>
  /\ UNCHANGED notWait

\* ssh_info = get_ssh_info(pod_id, ssh_key_path): a second runpod.get_pod,
\* which may raise or return no pod or no runtime, then the scan of the ports.
WaitGetSshInfo ==
  /\ wPc = "ssh_info"
  /\ \E a \in {"raises", "none", "no_runtime", "running"} :
       IF a = "running"
         THEN \E ports \in PortLists :
                /\ wPorts' = ports
                /\ ssh_info' = get_ssh_info(ports)
                /\ wPc' = IF get_ssh_info(ports) = NoSshInfo THEN "sleep"
                          ELSE "check_ssh"
         ELSE /\ wPorts' = <<>>
              /\ ssh_info' = NoSshInfo
              /\ wPc' = "sleep"
  /\ UNCHANGED <<retry, wI, wObserved, handshakes, wResult, wExc>>
  /\ UNCHANGED notWait

\* check_ssh(ssh_info["ip"], ssh_info["port"]): `ssh ... echo ok`; True when
\* the exit code is 0, False otherwise and on any Exception.
WaitCheckSsh ==
  /\ wPc = "check_ssh"
  /\ \E ok \in BOOLEAN :
       /\ handshakes' = Append(handshakes,
                               [poll |-> wI + 1, ip |-> ssh_info.ip,
                                port |-> ssh_info.port, ok |-> ok])
       /\ IF ok
            THEN /\ wResult' = [ready |-> TRUE, ssh |-> ssh_info, returned |-> TRUE]
                 /\ wPc' = "done"
            ELSE /\ wPc' = "sleep"
                 /\ UNCHANGED wResult
  /\ UNCHANGED <<retry, wI, wObserved, wPorts, ssh_info, wExc>>
  /\ UNCHANGED notWait

\* time.sleep(sleep_time), then the next pass of `for i in pbar`.
WaitSleep ==
  /\ wPc = "sleep"
  /\ wI' = wI + 1
  /\ wPc' = "query"
  /\ UNCHANGED <<retry, wObserved, wPorts, ssh_info, handshakes, wResult, wExc>>
  /\ UNCHANGED notWait

\* Ctrl-C in a query, a handshake or a sleep: not an Exception, it leaves
\* wait_for_pod.
WaitInterrupted ==
  /\ wPc \in {"ssh_info", "check_ssh", "sleep"} \/ (wPc = "query" /\ wI < retry)
  /\ wExc' = KeyboardInterrupt
  /\ wPc' = "done"
  /\ UNCHANGED <<retry, wI, wObserved, wPorts, ssh_info, handshakes, wResult>>
  /\ UNCHANGED notWait

\* A loop that gives up one poll early.
WaitReturnNotReadyEarly ==
  /\ wPc = "query"
  /\ wI + 1 >= retry
  /\ wResult' = [ready |-> FALSE, ssh |-> NoSshInfo, returned |-> TRUE]
  /\ wPc' = "done"
  /\ UNCHANGED <<retry, wI, wObserved, wPorts, ssh_info, handshakes, wExc>>
  /\ UNCHANGED notWait

\* The loop is over: return {"ready": False, "ssh": None}.
WaitReturnNotReady ==
  /\ wPc = "query"
  /\ wI >= retry
  /\ wResult' = [ready |-> FALSE, ssh |-> NoSshInfo, returned |-> TRUE]
  /\ wPc' = "done"
  /\ UNCHANGED <<retry, wI, wObserved, wPorts, ssh_info, handshakes, wExc>>
  /\ UNCHANGED notWait

NextWait ==
  \/ WaitQueryPod
  \/ WaitGetSshInfo
  \/ WaitCheckSsh
  \/ WaitSleep
  \/ WaitInterrupted
  \/ WaitReturnNotReady

\* ========================================================================
\* The key/value-to-flag loop of SGLangServer._build_cmd and run_benchmark.
\* A string is the sequence of its pieces; a piece is "_", "-", "--" or a
\* run of other characters.

FlagKeys ==
  { <<"dtype">>,
    <<"tensor", "_", "parallel", "_", "size">>,
    <<"disable", "_", "log", "_", "requests">> }

\* Python values by type: bool, NoneType, int, str.
FlagValues ==
  [t : {"bool"}, v : BOOLEAN] \cup [t : {"none"}, v : {0}]
    \cup [t : {"int"}, v : {0, 4}] \cup [t : {"str"}, v : {"", "auto"}]

FlagItems == [key : FlagKeys, value : FlagValues]

\* A dict: its items in insertion order, each key once.
FlagBags ==
  { b \in UNION { [1..n -> FlagItems] : n \in 0..MaxBag } :
      \A i, j \in 1..Len(b) : b[i].key = b[j].key => i = j }

\* key.replace('_', '-')
ReplaceUnderscores(key) ==
  [i \in 1..Len(key) |-> IF key[i] = "_" THEN "-" ELSE key[i]]

\* f"--{key.replace('_', '-')}"
ArgName(key) == <<"--">> \o ReplaceUnderscores(key)

\* str(value)
Str(value) ==
  IF value.t = "int" THEN <<ToString(value.v)>>
  ELSE IF value.t = "str" THEN <<value.v>>
  ELSE IF value.t = "bool" THEN <<IF value.v THEN "True" ELSE "False">>
  ELSE <<"None">>

\* The command before the loop.
BaseCmd(b) ==
  IF b = "_build_cmd"
    THEN << <<"python">>, <<"-m">>, <<"sglang.launch_server">>,
            <<"--", "model", "-", "path">>, <<"model_path">>,
            <<"--", "host">>, <<"host">>, <<"--", "port">>, <<"port">> >>
    ELSE << <<"vllm">>, <<"bench">>, <<"serve">>,
            <<"--", "base", "-", "url">>, <<"base_url">>,
            <<"--", "model">>, <<"model">> >>

IdleFlags ==
  /\ builder = "none"
  /\ kwargs = <<>>
  /\ kIdx = 1
  /\ cmd = <<>>
  /\ flagPc = "idle"

InitFlags ==
  /\ builder \in {"_build_cmd", "run_benchmark"}
  /\ kwargs \in FlagBags
  /\ kIdx = 1
  /\ cmd = <<>>
  /\ flagPc = "start"

\* cmd = [...]
FlagsBegin ==
  /\ flagPc = "start"
  /\ cmd' = BaseCmd(builder)
  /\ flagPc' = "loop"
  /\ UNCHANGED <<builder, kwargs, kIdx>>
  /\ UNCHANGED notFlags

\* A loop body that tests the truth of the value instead of its type.
FlagsItemTruthy ==
  /\ flagPc = "loop"
  /\ kIdx <= Len(kwargs)
  /\ LET key == kwargs[kIdx].key
         value == kwargs[kIdx].value
         falsy == \/ value.t = "none"
                  \/ value.t = "bool" /\ ~value.v
                  \/ value.t = "int" /\ value.v = 0
                  \/ value.t = "str" /\ value.v = ""
     IN  cmd' = IF falsy THEN cmd
                ELSE IF value.t = "bool" THEN Append(cmd, ArgName(key))
                ELSE cmd \o <<ArgName(key), Str(value)>>
  /\ kIdx' = kIdx + 1
  /\ UNCHANGED <<builder, kwargs, flagPc>>
  /\ UNCHANGED notFlags

\* One pass of `for key, value in kwargs.items()`.
FlagsItem ==
  /\ flagPc = "loop"
  /\ kIdx <= Len(kwargs)
  /\ LET key == kwargs[kIdx].key
         value == kwargs[kIdx].value
     IN  cmd' = IF value.t = "bool"
                  THEN IF value.v THEN Append(cmd, ArgName(key)) ELSE cmd
                ELSE IF value.t # "none"
                  THEN cmd \o <<ArgName(key), Str(value)>>
                ELSE cmd
  /\ kIdx' = kIdx + 1
  /\ UNCHANGED <<builder, kwargs, flagPc>>
  /\ UNCHANGED notFlags

\* The loop is over.
FlagsDone ==
  /\ flagPc = "loop"
  /\ kIdx > Len(kwargs)
  /\ flagPc' = "done"
  /\ UNCHANGED <<builder, kwargs, kIdx, cmd>>
  /\ UNCHANGED notFlags

NextFlags ==
  \/ FlagsBegin
  \/ FlagsItem
  \/ FlagsDone

\* ========================================================================
\* vllm.bench._generate_result_name

\* bench_cfg dicts: items in insertion order, each key once.
TrialItems ==
  [key : {"num_prompts"}, value : {100}]
    \cup [key : {"random_input_len"}, value : {1024}]
    \cup [key : {"seed"}, value : {7, 1049, 5704}]

TrialConfigs ==
  { c \in UNION { [1..n -> TrialItems] : n \in 0..3 } :
      \A i, j \in 1..Len(c) : c[i].key = c[j].key => i = j }

\* Order of the key strings as Python compares them.
KeyRank(k) ==
  CASE k = "max_concurrency" -> 1
    [] k = "num_prompts" -> 2
    [] k = "random_input_len" -> 3
    [] k = "random_output_len" -> 4
    [] k = "seed" -> 5

\* sorted(bench_cfg.items()): the keys are distinct, so the key decides.
RECURSIVE InsertItem(_, _)
InsertItem(item, sorted) ==
  IF sorted = <<>> THEN <<item>>
  ELSE IF KeyRank(item.key) < KeyRank(Head(sorted).key) THEN <<item>> \o sorted
  ELSE <<Head(sorted)>> \o InsertItem(item, Tail(sorted))

RECURSIVE SortedItems(_)
SortedItems(cfg) ==
  IF cfg = <<>> THEN <<>>
  ELSE InsertItem(Head(cfg), SortedItems(Tail(cfg)))

\* hashlib.md5(str(sorted(bench_cfg.items())).encode()).hexdigest()[:6] for
\* each sorted item list of TrialConfigs, as the library computes it.
Md5Prefix(items) ==
  CASE items = <<>>
         -> "d75171"
    [] items = <<[key |-> "seed", value |-> 7]>>
         -> "2b66ef"
    [] items = <<[key |-> "seed", value |-> 1049]>>
         -> "c91c89"
    [] items = <<[key |-> "seed", value |-> 5704]>>
         -> "135d8f"
    [] items = <<[key |-> "random_input_len", value |-> 1024]>>
         -> "d8d08c"
    [] items = <<[key |-> "random_input_len", value |-> 1024], [key |-> "seed", value |-> 7]>>
         -> "89665d"
    [] items = <<[key |-> "random_input_len", value |-> 1024], [key |-> "seed", value |-> 1049]>>
         -> "6f4a67"
    [] items = <<[key |-> "random_input_len", value |-> 1024], [key |-> "seed", value |-> 5704]>>
         -> "470ecc"
    [] items = <<[key |-> "num_prompts", value |-> 100]>>
         -> "6b0716"
    [] items = <<[key |-> "num_prompts", value |-> 100], [key |-> "seed", value |-> 7]>>
         -> "05682b"
    [] items = <<[key |-> "num_prompts", value |-> 100], [key |-> "seed", value |-> 1049]>>
         -> "216cee"
    [] items = <<[key |-> "num_prompts", value |-> 100], [key |-> "seed", value |-> 5704]>>
         -> "216cee"
    [] items = <<[key |-> "num_prompts", value |-> 100], [key |-> "random_input_len", value |-> 1024]>>
         -> "93e892"
    [] items = <<[key |-> "num_prompts", value |-> 100], [key |-> "random_input_len", value |-> 1024], [key |-> "seed", value |-> 7]>>
         -> "31afe8"
    [] items = <<[key |-> "num_prompts", value |-> 100], [key |-> "random_input_len", value |-> 1024], [key |-> "seed", value |-> 1049]>>
         -> "685e97"
    [] items = <<[key |-> "num_prompts", value |-> 100], [key |-> "random_input_len", value |-> 1024], [key |-> "seed", value |-> 5704]>>
         -> "d232dd"

\* `if key in bench_cfg: parts.append(f"{prefix}{bench_cfg[key]}")`
NamePart(cfg, key, prefix) ==
  LET hits == { i \in 1..Len(cfg) : cfg[i].key = key }
  IN  IF hits = {} THEN <<>>
      ELSE << <<prefix, ToString(cfg[CHOOSE i \in hits : TRUE].value)>> >>

\* "_".join(parts)
RECURSIVE JoinParts(_)
JoinParts(parts) ==
  IF parts = <<>> THEN <<>>
  ELSE IF Len(parts) = 1 THEN Head(parts)
  ELSE Head(parts) \o <<"_">> \o JoinParts(Tail(parts))

\* A naming function that also puts the trial's index into the name.
generate_result_name_indexed(name, index, bench_cfg) ==
  JoinParts(<< <<name>> >>
            \o NamePart(bench_cfg, "random_input_len", "in")
            \o NamePart(bench_cfg, "random_output_len", "out")
            \o NamePart(bench_cfg, "num_prompts", "p")
            \o NamePart(bench_cfg, "max_concurrency", "c")
            \o << <<ToString(index)>> >>
            \o << <<Md5Prefix(SortedItems(bench_cfg))>> >>)

\* _generate_result_name(config_name, index, bench_cfg)
generate_result_name(name, index, bench_cfg) ==
  JoinParts(<< <<name>> >>
            \o NamePart(bench_cfg, "random_input_len", "in")
            \o NamePart(bench_cfg, "random_output_len", "out")
            \o NamePart(bench_cfg, "num_prompts", "p")
            \o NamePart(bench_cfg, "max_concurrency", "c")
            \o << <<Md5Prefix(SortedItems(bench_cfg))>> >>)

IdleName ==
  /\ config_name = ""
  /\ bench_cfgs = <<>>
  /\ bench_i = 0
  /\ result_names = <<>>

\* Two bench configurations of one plan entry, at any two positions of its
\* bench list; the positions in between do not matter for the names.
InitName ==
  /\ config_name \in {"benchmark", "tp4"}
  /\ \E a, b \in TrialConfigs, i \in 0..MaxIndex, j \in 0..MaxIndex :
       /\ i < j
       /\ bench_cfgs = << [index |-> i, cfg |-> a], [index |-> j, cfg |-> b] >>
  /\ bench_i = 0
  /\ result_names = <<>>

\* `result_name = _generate_result_name(name, i, bench_cfg)` in the loop
\* over enumerate(bench_configs).
GenerateResultName ==
  /\ bench_i < Len(bench_cfgs)
  /\ bench_i' = bench_i + 1
  /\ result_names' =
       Append(result_names,
              generate_result_name(config_name, bench_cfgs[bench_i + 1].index,
                                   bench_cfgs[bench_i + 1].cfg))
  /\ UNCHANGED <<config_name, bench_cfgs>>
  /\ UNCHANGED notName

\* The entry's loop is over; the next entry reuses the naming function.
NamesDone ==
  /\ bench_i = Len(bench_cfgs)
  /\ bench_i > 0
  /\ bench_i' = bench_i + 1
  /\ UNCHANGED <<config_name, bench_cfgs, result_names>>
  /\ UNCHANGED notName

NextName ==
  \/ GenerateResultName
  \/ NamesDone

\* ========================================================================
\* run_benchmark: vllm/core/benchmark.py ("core") and the one nested in
\* runner.run_remote ("runner"), from the results configuration to the
\* return.  A line is its text, as a sequence of pieces, and whether it
\* ends in a newline.

LineTexts ==
  { <<"Throughput:", "12.5">>,
    <<"(APIServer)", "INFO", "GET", "/health">>,
    <<"INFO", "(APIServer)", "200">> }

\* What the subprocess writes: only its last line can lack the newline.
Outputs ==
  { o \in UNION { [1..n -> [text : LineTexts, nl : BOOLEAN]] : n \in 0..MaxLines } :
      \A i \in 1..Len(o) : i < Len(o) => o[i].nl }

\* "(APIServer)" in line
HasMarker(line) == \E i \in 1..Len(line.text) : line.text[i] = "(APIServer)"

\* A filter that only looks at the start of the line.
StartsWithMarker(line) == line.text[1] = "(APIServer)"

\* f.write(f"BENCHMARK: {result_name}\n"); f.write("=" * 64 + "\n")
LogHeader ==
  << [text |-> <<"BENCHMARK:", "result_name">>, nl |-> TRUE],
     [text |-> <<"================================================================">>,
      nl |-> TRUE] >>

\* The flags of the results configuration.
ResultFlags ==
  IF ~save_results THEN <<>>
  ELSE IF impl = "runner"
    THEN <<"--save-result", "--result-dir", "result_dir",
           "--result-filename", "result_name.json">>
  ELSE <<"--save-result", "--result-dir", "result_dir", "--result-filename",
         IF result_filename # "" THEN result_filename ELSE "result_name.json">>
         \o (IF save_detailed THEN <<"--save-detailed">> ELSE <<>>)

IdleBench ==
  /\ impl = "none"
  /\ save_results = FALSE
  /\ result_filename = ""
  /\ save_detailed = FALSE
  /\ output = <<>>
  /\ benchPc = "idle"
  /\ benchCmd = <<>>
  /\ streamed = <<>>
  /\ log_lines = <<>>
  /\ returncode = -1
  /\ dirs = {}
  /\ files = {}
  /\ benchExc = NoExc

InitBench ==
  /\ impl \in {"core", "runner"}
  /\ save_results \in BOOLEAN
  /\ result_filename \in {"", "custom.json"}
  /\ save_detailed \in BOOLEAN
  \* the nested run_benchmark has neither option
  /\ impl = "runner" => (result_filename = "" /\ ~save_detailed)
  /\ output \in Outputs
  /\ benchPc = "build"
  /\ benchCmd = <<>>
  /\ streamed = <<>>
  /\ log_lines = <<>>
  /\ returncode = -1
  \* the caller of the nested function has made output_dir (runner.py:543)
  /\ dirs = IF impl = "runner" /\ save_results THEN {"result_dir"} ELSE {}
  /\ files = {}
  /\ benchExc = NoExc

\* `if save_result: cmd.append("--save-result") ...`, then subprocess.Popen.
BenchPopen ==
  /\ benchPc = "build"
  /\ benchCmd' = <<"vllm", "bench", "serve">> \o ResultFlags
  /\ benchPc' = "stream"
  /\ UNCHANGED <<impl, save_results, result_filename, save_detailed, output,
                 streamed, log_lines, returncode, dirs, files, benchExc>>
  /\ UNCHANGED notBench

\* What is kept of a line: the core function keeps it as it is, the nested
\* one keeps line.rstrip('\n') and writes it back with a newline.
Kept(line) == IF impl = "runner" THEN [line EXCEPT !.nl = TRUE] ELSE line

\* A filter that only drops the lines starting with the marker.
BenchReadLineStartFilter ==
  /\ benchPc = "stream"
  /\ Len(streamed) < Len(output)
  /\ LET line == output[Len(streamed) + 1]
     IN  /\ streamed' = Append(streamed, line)
         /\ log_lines' = IF StartsWithMarker(line) THEN log_lines
                         ELSE Append(log_lines, Kept(line))
  /\ UNCHANGED <<impl, save_results, result_filename, save_detailed, output,
                 benchPc, benchCmd, returncode, dirs, files, benchExc>>
  /\ UNCHANGED notBench

\* One pass of `for line in process.stdout`: print, then keep unless marked.
BenchReadLine ==
  /\ benchPc = "stream"
  /\ Len(streamed) < Len(output)
  /\ LET line == output[Len(streamed) + 1]
     IN  /\ streamed' = Append(streamed, line)
         /\ log_lines' = IF HasMarker(line) THEN log_lines
                         ELSE Append(log_lines, Kept(line))
  /\ UNCHANGED <<impl, save_results, result_filename, save_detailed, output,
                 benchPc, benchCmd, returncode, dirs, files, benchExc>>
  /\ UNCHANGED notBench

\* Ctrl-C while the output is read.
BenchInterrupted ==
  /\ benchPc = "stream"
  /\ benchExc' = KeyboardInterrupt
  /\ benchPc' = "done"
  /\ UNCHANGED <<impl, save_results, result_filename, save_detailed, output,
                 benchCmd, streamed, log_lines, returncode, dirs, files>>
  /\ UNCHANGED notBench

\* End of the output and process.wait().  Tool side: with --save-result a
\* tool that exits with 0 has written its JSON file into the result dir.
BenchWait ==
  /\ benchPc = "stream"
  /\ Len(streamed) = Len(output)
  /\ \E rc \in {0, 1} :
       /\ returncode' = rc
       /\ IF rc = 0 /\ Len(benchCmd) > 3
            THEN /\ dirs' = dirs \cup {"result_dir"}
                 /\ files' = files \cup {[path |-> benchCmd[8], by |-> "tool",
                                          content |-> <<>>]}
            ELSE UNCHANGED <<dirs, files>>
  /\ benchPc' = "save"
  /\ UNCHANGED <<impl, save_results, result_filename, save_detailed, output,
                 benchCmd, streamed, log_lines, benchExc>>
  /\ UNCHANGED notBench

\* A function that writes the text log whatever the results policy says.
BenchSaveLogAlways ==
  /\ benchPc = "save"
  /\ dirs' = dirs \cup {"result_dir"}
  /\ files' = files \cup {[path |-> "result_name.txt", by |-> "run_benchmark",
                           content |-> LogHeader \o log_lines]}
  /\ benchPc' = "done"
  /\ UNCHANGED <<impl, save_results, result_filename, save_detailed, output,
                 benchCmd, streamed, log_lines, returncode, benchExc>>
  /\ UNCHANGED notBench

\* `if save_result:` os.makedirs(result_dir, exist_ok=True) (core only),
\* write header and log_lines to {result_name}.txt; then return.
BenchSaveLog ==
  /\ benchPc = "save"
  /\ IF ~save_results
       THEN UNCHANGED <<dirs, files>>
       ELSE /\ dirs' = dirs \cup {"result_dir"}
            /\ files' = files \cup {[path |-> "result_name.txt",
                                     by |-> "run_benchmark",
                                     content |-> LogHeader \o log_lines]}
  /\ benchPc' = "done"
  /\ UNCHANGED <<impl, save_results, result_filename, save_detailed, output,
                 benchCmd, streamed, log_lines, returncode, benchExc>>
  /\ UNCHANGED notBench

NextBench ==
  \/ BenchPopen
  \/ BenchReadLine
  \/ BenchInterrupted
  \/ BenchWait
  \/ BenchSaveLog

\* ========================================================================
\* runpod.bench.from_yaml -> run_e2e -> run_remote, with no fault injected:
\* every provider, SSH and subprocess call answers on its first attempt.
\* `calls` is the sequence of calls an observer of the mocked layers sees.
ContextSizes == {1024, 2048}

ContextLists ==
  UNION {[1..n -> ContextSizes] : n \in 0..MaxContexts}

\* f"{name}_TP{tp}_DP{dp}_CTX{ctx}_C{concurrency}_P{num_prompts}_O{output_len}"
\* for one entry, one parallelism pair and one value of each other list.
ResultName(ctx) == <<"run", "TP1", "DP1", "CTX", ctx, "C1", "P1", "O1">>

\* The names of the trials of a plan, in the order they run.
ResultNames(ctxs) == [i \in 1..Len(ctxs) |-> ResultName(ctxs[i])]

Call(op, n) == [op |-> op, n |-> n]

NoReturn == [status |-> "none"]

IdleCloud ==
  /\ context_sizes = <<>>
  /\ cloudSave = FALSE
  /\ cloudPc = "idle"
  /\ calls = <<>>
  /\ ctx_i = 0
  /\ returncodes = <<>>
  /\ remote_files = {}
  /\ remote_result = NoReturn
  /\ local_files = {}
  /\ e2e_result = "none"
  /\ ret = NoReturn

InitCloud ==
  /\ context_sizes \in ContextLists
  /\ cloudSave \in BOOLEAN
  /\ cloudPc = "deploy"
  /\ calls = <<>>
  /\ ctx_i = 0
  /\ returncodes = <<>>
  /\ remote_files = {}
  /\ remote_result = NoReturn
  /\ local_files = {}
  /\ e2e_result = "none"
  /\ ret = NoReturn

\* deploy(): the create call of the provider.
CloudCreate ==
  /\ cloudPc = "deploy"
  /\ calls' = Append(calls, Call("create", 0))
  /\ cloudPc' = "wait"
  /\ UNCHANGED <<context_sizes, cloudSave, ctx_i, remote_files,
                 remote_result, local_files, e2e_result, ret>>
  /\ UNCHANGED returncodes
  /\ UNCHANGED notCloud

\* deploy(wait_for_ready=True): wait_for_pod answers ready.
CloudWaitReady ==
  /\ cloudPc = "wait"
  /\ calls' = Append(calls, Call("wait-ready", 0))
  /\ cloudPc' = "setup"
  /\ UNCHANGED <<context_sizes, cloudSave, ctx_i, remote_files,
                 remote_result, local_files, e2e_result, ret>>
  /\ UNCHANGED returncodes
  /\ UNCHANGED notCloud

\* run_remote: the decorator builds the remote environment, then the body of
\* execute_benchmark starts.
CloudEnvironmentSetup ==
  /\ cloudPc = "setup"
  /\ calls' = Append(calls, Call("environment-setup", 0))
  /\ cloudPc' = "start"
  /\ UNCHANGED <<context_sizes, cloudSave, ctx_i, remote_files,
                 remote_result, local_files, e2e_result, ret>>
  /\ UNCHANGED returncodes
  /\ UNCHANGED notCloud

\* with VLLMServer(...): __enter__ calls start().
CloudServerStart ==
  /\ cloudPc = "start"
  /\ calls' = Append(calls, Call("server-start", 0))
  /\ cloudPc' = "health"
  /\ UNCHANGED <<context_sizes, cloudSave, ctx_i, remote_files,
                 remote_result, local_files, e2e_result, ret>>
  /\ UNCHANGED returncodes
  /\ UNCHANGED notCloud

\* _wait_for_health: the probe is answered.
CloudHealthOk ==
  /\ cloudPc = "health"
  /\ calls' = Append(calls, Call("health-ok", 0))
  /\ cloudPc' = "trials"
  /\ UNCHANGED <<context_sizes, cloudSave, ctx_i, remote_files,
                 remote_result, local_files, e2e_result, ret>>
  /\ UNCHANGED returncodes
  /\ UNCHANGED notCloud

\* One pass of the trial loops: run_benchmark, which saves under the result
\* name when save_results is set.
\* process.wait() ends the trial; process.returncode is not read.
CloudTrial ==
  /\ cloudPc = "trials"
  /\ ctx_i < Len(context_sizes)
  /\ ctx_i' = ctx_i + 1
  /\ calls' = Append(calls, Call("trial", ctx_i + 1))
  /\ \E code \in {0, 1} :
       returncodes' = Append(returncodes, code)
  /\ remote_files' = IF cloudSave
                     THEN remote_files \cup
                            {ResultName(context_sizes[ctx_i + 1])}
                     ELSE remote_files
  /\ UNCHANGED <<context_sizes, cloudSave, cloudPc,
                 remote_result, local_files, e2e_result, ret>>
  /\ UNCHANGED notCloud

\* The with block is left: __exit__ calls stop(), which signals the child.
CloudServerStop ==
  /\ cloudPc = "trials"
  /\ ctx_i = Len(context_sizes)
  /\ calls' = Append(calls, Call("server-stop", 0))
  /\ cloudPc' = "port"
  /\ UNCHANGED <<context_sizes, cloudSave, ctx_i, remote_files,
                 remote_result, local_files, e2e_result, ret>>
  /\ UNCHANGED returncodes
  /\ UNCHANGED notCloud

\* stop(): the bind on the port succeeds.
CloudPortReleased ==
  /\ cloudPc = "port"
  /\ calls' = Append(calls, Call("port-released", 0))
  /\ cloudPc' = "remote_return"
  /\ UNCHANGED <<context_sizes, cloudSave, ctx_i, remote_files,
                 remote_result, local_files, e2e_result, ret>>
  /\ UNCHANGED returncodes
  /\ UNCHANGED notCloud

\* execute_benchmark returns and run_remote hands its result back.
CloudRemoteReturn ==
  /\ cloudPc = "remote_return"
  /\ remote_result' = [status |-> "completed"]
  /\ cloudPc' = "download"
  /\ UNCHANGED <<context_sizes, cloudSave, calls, ctx_i,
                 remote_files, local_files, e2e_result, ret>>
  /\ UNCHANGED returncodes
  /\ UNCHANGED notCloud

\* run_e2e step 3: _download_results copies what the result directory holds.
CloudDownload ==
  /\ cloudPc = "download"
  /\ calls' = Append(calls, Call("download", 0))
  /\ local_files' = remote_files
  /\ cloudPc' = "finally"
  /\ UNCHANGED <<context_sizes, cloudSave, ctx_i, remote_files,
                 remote_result, e2e_result, ret>>
  /\ UNCHANGED returncodes
  /\ UNCHANGED notCloud

\* run_e2e's finally: delete(pod_id); then the function ends without a
\* return statement.
CloudDestroy ==
  /\ cloudPc = "finally"
  /\ calls' = Append(calls, Call("destroy", 0))
  /\ e2e_result' = "None"
  /\ cloudPc' = "return"
  /\ UNCHANGED <<context_sizes, cloudSave, ctx_i, remote_files,
                 remote_result, local_files, ret>>
  /\ UNCHANGED returncodes
  /\ UNCHANGED notCloud

\* from_yaml: the dict returned after run_e2e came back.
CloudReturn ==
  /\ cloudPc = "return"
  /\ ret' = [status |-> "success", gpu_type |-> "gpu", gpu_count |-> 1]
  /\ cloudPc' = "done"
  /\ UNCHANGED <<context_sizes, cloudSave, calls, ctx_i,
                 remote_files, remote_result, local_files, e2e_result>>
  /\ UNCHANGED returncodes
  /\ UNCHANGED notCloud

NextCloud ==
  \/ CloudCreate
  \/ CloudWaitReady
  \/ CloudEnvironmentSetup
  \/ CloudServerStart
  \/ CloudHealthOk
  \/ CloudTrial
  \/ CloudServerStop
  \/ CloudPortReleased
  \/ CloudRemoteReturn
  \/ CloudDownload
  \/ CloudDestroy
  \/ CloudReturn

\* ========================================================================
\* cli.main: one invocation of the command line
\* ========================================================================
Commands == {"", "bench", "vllm", "sglang", "runpod", "sky"}

\* The process has not exited.
Running == -1

\* The status of a process the interpreter ended with SIGINT, as a shell
\* reports it (130) and as a parent process reads it (-2).
SigintStatuses == {130, -2}

\* How the from_yaml of a command can end: the status of the dict it returns,
\* or the exception that leaves it.
FromYamlOutcomes(c) ==
  CASE c \in {"bench", "vllm"} -> {"success", "Exception", "KeyboardInterrupt"}
    [] c = "sglang" ->
         {"success", "error", "Exception", "KeyboardInterrupt"}
    [] c = "runpod" ->
         {"success", "error", "Exception", "KeyboardInterrupt"}
    [] c = "sky" ->
         {"success", "interrupted", "error", "Exception",
          "KeyboardInterrupt"}
    [] OTHER -> {}

IdleCli ==
  /\ command = ""
  /\ subcommand = ""
  /\ config_given = FALSE
  /\ config_exists = FALSE
  /\ cliPc = "idle"
  /\ from_yaml_calls = 0
  /\ result_status = "none"
  /\ cliExc = NoExc
  /\ printed_help = FALSE
  /\ exit_code = Running

InitCli ==
  /\ command \in Commands
  /\ subcommand \in {"", "bench"}
  \* `bench` has no subcommands; without a command there is none either
  /\ command \in {"", "bench"} => subcommand = ""
  /\ config_given \in BOOLEAN
  /\ config_exists \in BOOLEAN
  \* only a bench (sub)command takes a path, and a path that was not given
  \* names no file
  /\ config_given => (command = "bench" \/ subcommand = "bench")
  /\ ~config_given => ~config_exists
  /\ cliPc = "parse"
  /\ from_yaml_calls = 0
  /\ result_status = "none"
  /\ cliExc = NoExc
  /\ printed_help = FALSE
  /\ exit_code = Running

\* The invocation names a bench (sub)command.
NamesBench ==
  \/ command = "bench"
  \/ command \in {"vllm", "sglang", "runpod", "sky"} /\ subcommand = "bench"

\* The invocation names a config file and asks for a run.
AsksForRun == NamesBench /\ config_given

\* args = parser.parse_args(): the config argument of a bench (sub)command
\* is required, and argparse exits with 2 without it.
CliParseArgs ==
  /\ cliPc = "parse"
  /\ IF NamesBench /\ ~config_given
       THEN /\ exit_code' = 2
            /\ cliPc' = "exited"
       ELSE /\ cliPc' = "dispatch"
            /\ UNCHANGED exit_code
  /\ UNCHANGED <<command, subcommand, config_given, config_exists,
                 from_yaml_calls, result_status, cliExc, printed_help>>
  /\ UNCHANGED notCli

\* if args.command == ... / if args.<x>_command == "bench": ... else: help.
\* Without a bench subcommand main returns and the interpreter exits with 0.
CliDispatch ==
  /\ cliPc = "dispatch"
  /\ IF NamesBench
       THEN /\ cliPc' = "check"
            /\ UNCHANGED <<printed_help, exit_code>>
       ELSE /\ printed_help' = (command # "runpod")
            /\ exit_code' = 0
            /\ cliPc' = "exited"
  /\ UNCHANGED <<command, subcommand, config_given, config_exists,
                 from_yaml_calls,
                 result_status, cliExc>>
  /\ UNCHANGED notCli

\* if not os.path.exists(config_path): print; sys.exit(1)
CliCheckConfig ==
  /\ cliPc = "check"
  /\ IF config_exists
       THEN /\ cliPc' = "call"
            /\ UNCHANGED exit_code
       ELSE /\ exit_code' = 1
            /\ cliPc' = "exited"
  /\ UNCHANGED <<command, subcommand, config_given, config_exists,
                 from_yaml_calls,
                 result_status, cliExc, printed_help>>
  /\ UNCHANGED notCli

\* result = from_yaml(config_path)
CliFromYaml ==
  /\ cliPc = "call"
  /\ from_yaml_calls' = from_yaml_calls + 1
  /\ \E o \in FromYamlOutcomes(command) :
       IF o \in {"Exception", "KeyboardInterrupt"}
         THEN /\ cliExc' = Exc(o, "", <<>>, 0)
              /\ UNCHANGED result_status
              /\ cliPc' = "uncaught"
         ELSE /\ result_status' = o
              /\ UNCHANGED cliExc
              /\ cliPc' = "report"
  /\ UNCHANGED <<command, subcommand, config_given, config_exists,
                 printed_help,
                 exit_code>>
  /\ UNCHANGED notCli

\* A report that treats every status but success alike.
CliReportOneErrorCode ==
  /\ cliPc = "report"
  /\ exit_code' = IF result_status = "success" THEN 0 ELSE 1
  /\ cliPc' = "exited"
  /\ UNCHANGED <<command, subcommand, config_given, config_exists,
                 from_yaml_calls,
                 result_status, cliExc, printed_help>>
  /\ UNCHANGED notCli

\* if result.get("status") == "success": print (main returns: exit 0)
\* elif result.get("status") == "interrupted": sys.exit(130)   (sky only)
\* else: sys.exit(1)
CliReport ==
  /\ cliPc = "report"
  /\ exit_code' = IF result_status = "success" THEN 0
                  ELSE IF command = "sky" /\ result_status = "interrupted"
                    THEN 130
                  ELSE 1
  /\ cliPc' = "exited"
  /\ UNCHANGED <<command, subcommand, config_given, config_exists,
                 from_yaml_calls,
                 result_status, cliExc, printed_help>>
  /\ UNCHANGED notCli

\* An exception leaves main: the interpreter prints the traceback and exits
\* with 1, or ends itself with SIGINT for a KeyboardInterrupt.
CliUncaught ==
  /\ cliPc = "uncaught"
  /\ exit_code' \in IF cliExc.type = "KeyboardInterrupt" THEN SigintStatuses
                    ELSE {1}
  /\ cliPc' = "exited"
  /\ UNCHANGED <<command, subcommand, config_given, config_exists,
                 from_yaml_calls,
                 result_status, cliExc, printed_help>>
  /\ UNCHANGED notCli

NextCli ==
  \/ CliParseArgs
  \/ CliDispatch
  \/ CliCheckConfig
  \/ CliFromYaml
  \/ CliReport
  \/ CliUncaught

\* ========================================================================
\* benchmaq.bench: the programmatic entry point
\* ========================================================================
RunNames == {"a", "b"}

\* The `runs` lists a config file can hold (<<>>: no file, or no such key).
RunLists == UNION {[1..n -> RunNames] : n \in 0..MaxRuns}

\* host=None, host="" and a host name.
HostArgs == {"None", "", "gpu-1"}

\* kwargs_to_run_config(...)["runs"]: one run under the default name.
KwargsRuns == <<"benchmark">>

\* merge_config for the key `runs`: a list given by the overrides replaces
\* the list of the base.
MergedRuns(base, overrides, given) == IF given THEN overrides ELSE base

\* merge_config for remote.host: both sides are dicts and are merged key by
\* key, the override winning.
MergedHost(base, override, given) == IF given THEN override ELSE base

IdleApi ==
  /\ file_runs = <<>>
  /\ file_host = ""
  /\ model_path = FALSE
  /\ host = "None"
  /\ apiPc = "idle"
  /\ config_runs = <<>>
  /\ is_remote = FALSE
  /\ remote_host = ""
  /\ executions = <<>>
  /\ apiResult = NoReturn
  /\ apiExc = NoExc

InitApi ==
  /\ file_runs \in RunLists
  /\ file_host \in {"", "gpu-0"}
  /\ model_path \in BOOLEAN
  /\ host \in HostArgs
  /\ apiPc = "merge"
  /\ config_runs = <<>>
  /\ is_remote = FALSE
  /\ remote_host = ""
  /\ executions = <<>>
  /\ apiResult = NoReturn
  /\ apiExc = NoExc

\* is_remote is computed from the file's config; then the kwargs are merged
\* over it.
ApiMerge ==
  /\ apiPc = "merge"
  /\ is_remote' = (host # "None" \/ file_host # "")
  /\ config_runs' = MergedRuns(file_runs, KwargsRuns, model_path)
  /\ remote_host' = MergedHost(file_host, host, host \notin {"None", ""})
  /\ apiPc' = "check"
  /\ UNCHANGED <<file_runs, file_host, model_path, host, executions,
                 apiResult, apiExc>>
  /\ UNCHANGED notApi

\* if not config.get("runs"): raise ValueError("No benchmark runs ...")
ApiCheckRuns ==
  /\ apiPc = "check"
  /\ IF config_runs = <<>>
       THEN /\ apiExc' = Exc("ValueError", "No benchmark runs", <<>>, 0)
            /\ apiPc' = "done"
       ELSE /\ apiPc' = "try"
            /\ UNCHANGED apiExc
  /\ UNCHANGED <<file_runs, file_host, model_path, host, config_runs,
                 is_remote, remote_host, executions, apiResult>>
  /\ UNCHANGED notApi

\* try: the remote or the local run, which returns or raises.
ApiExecute ==
  /\ apiPc = "try"
  /\ IF is_remote /\ remote_host = ""
       THEN /\ apiExc' = Exc("ValueError", "Remote host is required", <<>>, 0)
            /\ apiPc' = "except"
            /\ UNCHANGED <<executions, apiResult>>
       ELSE \E o \in Outcomes :
              /\ executions' = Append(executions,
                                      IF is_remote THEN "run_remote"
                                      ELSE "vllm.run")
              /\ IF o = "ok"
                   THEN /\ apiResult' = [status |-> "success"]
                        /\ apiPc' = "done"
                        /\ UNCHANGED apiExc
                   ELSE /\ apiExc' = Exc(o, "run failed", <<>>, 0)
                        /\ apiPc' = "except"
                        /\ UNCHANGED apiResult
  /\ UNCHANGED <<file_runs, file_host, model_path, host, config_runs,
                 is_remote, remote_host>>
  /\ UNCHANGED notApi

\* A bench without the except clause.
ApiExceptNone ==
  /\ apiPc = "except"
  /\ apiPc' = "done"
  /\ UNCHANGED <<file_runs, file_host, model_path, host, config_runs,
                 is_remote, remote_host, executions, apiResult, apiExc>>
  /\ UNCHANGED notApi

\* except Exception as e: return {"status": "error", ...}
ApiExcept ==
  /\ apiPc = "except"
  /\ IF IsException(apiExc)
       THEN /\ apiResult' = [status |-> "error"]
            /\ apiExc' = NoExc
       ELSE UNCHANGED <<apiResult, apiExc>>
  /\ apiPc' = "done"
  /\ UNCHANGED <<file_runs, file_host, model_path, host, config_runs,
                 is_remote, remote_host, executions>>
  /\ UNCHANGED notApi

NextApi ==
  \/ ApiMerge
  \/ ApiCheckRuns
  \/ ApiExecute
  \/ ApiExcept

\* ========================================================================
\* VLLMServer._wait_for_health and SGLangServer._wait_for_health
\* ========================================================================
\* What a GET /health can bring: a status code, or 0 for a
\* requests.RequestException (connection refused, timeout).
HealthAnswers == {0, 200, 204, 503}

IdleHealth ==
  /\ hEngine = "none"
  /\ hMaxAttempts = 0
  /\ hPc = "idle"
  /\ hAttempt = 0
  /\ answers = <<>>
  /\ hResult = "none"

InitHealth ==
  /\ hEngine \in {"vllm", "sglang"}
  /\ hMaxAttempts \in 0..MaxProbes
  \* SGLangServer.start calls _wait_for_health() with its default, a
  \* positive count
  /\ hEngine = "sglang" => hMaxAttempts > 0
  /\ hPc = "probe"
  /\ hAttempt = 0
  /\ answers = <<>>
  /\ hResult = "none"

\* One pass of VLLMServer's `while True`: GET, return True on 200, count the
\* attempt, return False when a positive limit is reached, else sleep.
VllmHealthPass ==
  /\ hEngine = "vllm"
  /\ hPc = "probe"
  /\ Len(answers) < MaxProbes
  /\ \E a \in HealthAnswers :
       /\ answers' = Append(answers, a)
       /\ IF a = 200
            THEN /\ hResult' = "True"
                 /\ hPc' = "returned"
                 /\ UNCHANGED hAttempt
            ELSE /\ hAttempt' = hAttempt + 1
                 /\ IF hMaxAttempts > 0 /\ hAttempt + 1 >= hMaxAttempts
                      THEN /\ hResult' = "False"
                           /\ hPc' = "returned"
                      ELSE UNCHANGED <<hResult, hPc>>
  /\ UNCHANGED <<hEngine, hMaxAttempts>>
  /\ UNCHANGED notHealth

\* One pass of SGLangServer's `for attempt in range(max_attempts)`: GET,
\* return True on 200, else sleep.
SglangHealthPass ==
  /\ hEngine = "sglang"
  /\ hPc = "probe"
  /\ hAttempt < hMaxAttempts
  /\ \E a \in HealthAnswers :
       /\ answers' = Append(answers, a)
       /\ IF a = 200
            THEN /\ hResult' = "True"
                 /\ hPc' = "returned"
                 /\ UNCHANGED hAttempt
            ELSE /\ hAttempt' = hAttempt + 1
                 /\ UNCHANGED <<hResult, hPc>>
  /\ UNCHANGED <<hEngine, hMaxAttempts>>
  /\ UNCHANGED notHealth

\* SGLangServer: the for loop is used up: return False.
SglangHealthExhausted ==
  /\ hEngine = "sglang"
  /\ hPc = "probe"
  /\ hAttempt >= hMaxAttempts
  /\ hResult' = "False"
  /\ hPc' = "returned"
  /\ UNCHANGED <<hEngine, hMaxAttempts, hAttempt, answers>>
  /\ UNCHANGED notHealth

NextHealth ==
  \/ VllmHealthPass
  \/ SglangHealthPass
  \/ SglangHealthExhausted

\* ========================================================================
\* VLLMServer.stop and SGLangServer.stop (the same code)
\* ========================================================================
IdleStop ==
  /\ stopProc = "none"
  /\ stopPc = "idle"
  /\ signals = <<>>
  /\ timed_out = FALSE
  /\ waits = <<>>
  /\ bind_probes = 0
  /\ port_held = FALSE
  /\ other_holder = FALSE
  /\ port_released = FALSE
  /\ stopExc = NoExc

\* stop() is called on a server that was never started, whose child runs, or
\* whose child has exited; a running child holds the port, and another
\* process may hold it as well.
InitStop ==
  /\ stopProc \in {"none", "running", "exited"}
  /\ stopPc = "enter"
  /\ signals = <<>>
  /\ timed_out = FALSE
  /\ waits = <<>>
  /\ bind_probes = 0
  /\ other_holder \in BOOLEAN
  /\ port_held \in BOOLEAN
  /\ stopProc = "running" => port_held
  /\ other_holder => port_held
  /\ port_released = FALSE
  /\ stopExc = NoExc

\* if self.process is None or self.process.poll() is not None: return
\* self.process.send_signal(signal.SIGINT)
StopEnter ==
  /\ stopPc = "enter"
  /\ IF stopProc # "running"
       THEN /\ stopPc' = "returned"
            /\ UNCHANGED signals
       ELSE /\ signals' = Append(signals, "SIGINT")
            /\ stopPc' = "wait"
  /\ UNCHANGED <<stopProc, timed_out, waits, bind_probes, port_held,
                 other_holder, port_released, stopExc>>
  /\ UNCHANGED notStop

\* A stop that starts to probe the port when the graceful wait times out.
StopWaitGracefulNoKill ==
  /\ stopPc = "wait"
  /\ waits' = Append(waits, "timeout=30")
  /\ \E exited \in BOOLEAN :
       IF exited
         THEN /\ stopProc' = "exited"
              /\ UNCHANGED timed_out
         ELSE /\ timed_out' = TRUE
              /\ UNCHANGED stopProc
  /\ stopPc' = "probe"
  /\ UNCHANGED <<signals, bind_probes, port_held, other_holder,
                 port_released, stopExc>>
  /\ UNCHANGED notStop

\* try: self.process.wait(timeout=30) / except subprocess.TimeoutExpired:
\* the child exits within 30 s, or the wait times out.
StopWaitGraceful ==
  /\ stopPc = "wait"
  /\ waits' = Append(waits, "timeout=30")
  /\ \E exited \in BOOLEAN :
       IF exited
         THEN /\ stopProc' = "exited"
              /\ stopPc' = "probe"
              /\ UNCHANGED timed_out
         ELSE /\ timed_out' = TRUE
              /\ stopPc' = "kill"
              /\ UNCHANGED stopProc
  /\ UNCHANGED <<signals, bind_probes, port_held, other_holder,
                 port_released, stopExc>>
  /\ UNCHANGED notStop

\* self.process.kill()
StopKill ==
  /\ stopPc = "kill"
  /\ signals' = Append(signals, "SIGKILL")
  /\ stopPc' = "wait_killed"
  /\ UNCHANGED <<stopProc, timed_out, waits, bind_probes, port_held,
                 other_holder, port_released, stopExc>>
  /\ UNCHANGED notStop

\* self.process.wait(): returns when the killed child is gone.
StopWaitKilled ==
  /\ stopPc = "wait_killed"
  /\ waits' = Append(waits, "no timeout")
  /\ stopProc' = "exited"
  /\ stopPc' = "probe"
  /\ UNCHANGED <<signals, timed_out, bind_probes, port_held, other_holder,
                 port_released, stopExc>>
  /\ UNCHANGED notStop

\* KeyboardInterrupt while stop() waits for the child: it leaves stop().
StopInterrupted ==
  /\ stopPc \in {"wait", "wait_killed"}
  /\ stopExc' = KeyboardInterrupt
  /\ stopPc' = "raised"
  /\ UNCHANGED <<stopProc, signals, timed_out, waits, bind_probes,
                 port_held, other_holder, port_released>>
  /\ UNCHANGED notStop

\* One pass of `for _ in range(30)`: bind the port and break, or sleep 1 s
\* on OSError.
StopBind ==
  /\ stopPc = "probe"
  /\ bind_probes < PortProbes
  /\ bind_probes' = bind_probes + 1
  /\ IF port_held
       THEN UNCHANGED <<port_released, stopPc>>
       ELSE /\ port_released' = TRUE
            /\ stopPc' = "returned"
  /\ UNCHANGED <<stopProc, signals, timed_out, waits, port_held,
                 other_holder, stopExc>>
  /\ UNCHANGED notStop

\* The 30 passes are used up: stop() returns.
StopBindExhausted ==
  /\ stopPc = "probe"
  /\ bind_probes >= PortProbes
  /\ stopPc' = "returned"
  /\ UNCHANGED <<stopProc, signals, timed_out, waits, bind_probes,
                 port_held, other_holder, port_released, stopExc>>
  /\ UNCHANGED notStop

\* OS side: the port of an exited child becomes free, unless another process
\* holds it.
StopPortFreed ==
  /\ port_held
  /\ stopProc # "running"
  /\ ~other_holder
  /\ stopPc \notin {"returned", "raised"}
  /\ port_held' = FALSE
  /\ UNCHANGED <<stopProc, stopPc, signals, timed_out, waits, bind_probes,
                 other_holder, port_released, stopExc>>
  /\ UNCHANGED notStop

NextStop ==
  \/ StopEnter
  \/ StopWaitGraceful
  \/ StopKill
  \/ StopWaitKilled
  \/ StopInterrupted
  \/ StopBind
  \/ StopBindExhausted
  \/ StopPortFreed

\* ========================================================================
\* The loop over the plan entries in its three variants: run_remote's
\* execute_benchmark (runner.py), vllm.run (vllm/__init__.py) and
\* _run_benchmarks (vllm/bench.py).  Servers and trials do not fail here.
\* ========================================================================
PlanImpls == {"run_remote", "vllm.run", "_run_benchmarks"}

\* One entry as written in the config: its name ("None": no such key), the
\* model path given to the server, whether model.repo_id and model.local_dir
\* are both set, and the number of trials its lists describe.
RunCfgs ==
  [name : {"None", "", "a"}, model_path : {"", "m"}, download : BOOLEAN,
   trials : 0..MaxBench]

RunPlans == UNION {[1..n -> RunCfgs] : n \in 1..MaxPlan}

\* run_cfg.get("name", ""), or run_cfg.get("name", "benchmark") in
\* _run_benchmarks.
NameOf(which, cfg) ==
  IF cfg.name = "None"
    THEN (IF which = "_run_benchmarks" THEN "benchmark" ELSE "")
    ELSE cfg.name

\* The model handed to the server: vllm_serve.model_path, which falls back
\* to model.local_dir in run_remote and _run_benchmarks (vllm.run has no
\* fallback).  An empty model_path is not replaced by run_remote's
\* .get(key, default), and is by the `or` chain of _run_benchmarks.
ModelOf(which, cfg) ==
  CASE which = "vllm.run" -> cfg.model_path
    [] which = "run_remote" -> cfg.model_path
    [] which = "_run_benchmarks" ->
         IF cfg.model_path # "" THEN cfg.model_path
         ELSE IF cfg.download THEN "local_dir" ELSE ""

Event(op, i, rc) == [op |-> op, entry |-> i, rc |-> rc]

IdlePlan ==
  /\ planImpl = "none"
  /\ runs = <<>>
  /\ run_i = 0
  /\ planPc = "idle"
  /\ run_name = ""
  /\ run_model = ""
  /\ trial_i = 0
  /\ events = <<>>
  /\ planExc = NoExc

InitPlan ==
  /\ planImpl \in PlanImpls
  /\ runs \in RunPlans
  /\ run_i = 1
  /\ planPc = "entry"
  /\ run_name = ""
  /\ run_model = ""
  /\ trial_i = 0
  /\ events = <<>>
  /\ planExc = NoExc

\* The head of the loop body: the fields of the entry are read; the model
\* download comes next when it is configured (vllm.run has none).
PlanEntry ==
  /\ planPc = "entry"
  /\ run_i <= Len(runs)
  /\ run_name' = NameOf(planImpl, runs[run_i])
  /\ run_model' = ModelOf(planImpl, runs[run_i])
  /\ trial_i' = 0
  /\ planPc' = IF planImpl # "vllm.run" /\ runs[run_i].download
               THEN "download" ELSE "check"
  /\ UNCHANGED <<planImpl, runs, run_i, events, planExc>>
  /\ UNCHANGED notPlan

\* A download whose exit code is not looked at.
PlanDownloadIgnoresExit ==
  /\ planPc = "download"
  /\ \E rc \in {0, 1} :
       events' = Append(events, Event("download", run_i, rc))
  /\ planPc' = "check"
  /\ UNCHANGED <<planImpl, runs, run_i, run_name, run_model, trial_i,
                 planExc>>
  /\ UNCHANGED notPlan

\* download_model / _download_model: run huggingface-cli, wait, and raise
\* when its exit code is not 0.
PlanDownload ==
  /\ planPc = "download"
  /\ \E rc \in {0, 1} :
       /\ events' = Append(events, Event("download", run_i, rc))
       /\ IF rc # 0
            THEN /\ planExc' = Exc("Exception", "Model download failed",
                                   <<>>, rc)
                 /\ planPc' = "raised"
            ELSE /\ planPc' = "check"
                 /\ UNCHANGED planExc
  /\ UNCHANGED <<planImpl, runs, run_i, run_name, run_model, trial_i>>
  /\ UNCHANGED notPlan

\* The tests that skip an entry (continue):
\*   run_remote, vllm.run:  if not name or not model_path
\*   _run_benchmarks:       if not model / if not bench_configs
Skipped(which, name, model, cfg) ==
  IF which = "_run_benchmarks" THEN model = "" \/ cfg.trials = 0
  ELSE name = "" \/ model = ""

PlanCheck ==
  /\ planPc = "check"
  /\ IF Skipped(planImpl, run_name, run_model, runs[run_i])
       THEN /\ run_i' = run_i + 1
            /\ planPc' = "entry"
       ELSE /\ planPc' = "start"
            /\ UNCHANGED run_i
  /\ UNCHANGED <<planImpl, runs, run_name, run_model, trial_i, events,
                 planExc>>
  /\ UNCHANGED notPlan

\* with VLLMServer(...) as server:
PlanServerStart ==
  /\ planPc = "start"
  /\ events' = Append(events, Event("start", run_i, 0))
  /\ planPc' = "trials"
  /\ UNCHANGED <<planImpl, runs, run_i, run_name, run_model, trial_i,
                 planExc>>
  /\ UNCHANGED notPlan

\* One run_benchmark call of the with body.
PlanTrial ==
  /\ planPc = "trials"
  /\ trial_i < runs[run_i].trials
  /\ trial_i' = trial_i + 1
  /\ events' = Append(events, Event("trial", run_i, 0))
  /\ UNCHANGED <<planImpl, runs, run_i, planPc, run_name, run_model,
                 planExc>>
  /\ UNCHANGED notPlan

\* The with block is left (stop), time.sleep(5), next entry.
PlanServerStop ==
  /\ planPc = "trials"
  /\ trial_i >= runs[run_i].trials
  /\ events' = Append(events, Event("stop", run_i, 0))
  /\ run_i' = run_i + 1
  /\ planPc' = "entry"
  /\ UNCHANGED <<planImpl, runs, run_name, run_model, trial_i, planExc>>
  /\ UNCHANGED notPlan

\* The loop is over.
PlanReturn ==
  /\ planPc = "entry"
  /\ run_i > Len(runs)
  /\ planPc' = "done"
  /\ UNCHANGED <<planImpl, runs, run_i, run_name, run_model, trial_i,
                 events, planExc>>
  /\ UNCHANGED notPlan

NextPlan ==
  \/ PlanEntry
  \/ PlanDownload
  \/ PlanCheck
  \/ PlanServerStart
  \/ PlanTrial
  \/ PlanServerStop
  \/ PlanReturn

\* ========================================================================
\* client.deploy: the bid of a spot deploy (get_minimum_bid_price)
\* ========================================================================
\* Python's None in the place of a price.
None == -1

\* Prices, in cents per GPU and hour.
Prices == 0..MaxBid

\* What the provider answers to the price query: the request raises, or the
\* reply has "data": null, an empty gpuTypes list, a null lowestPrice, or a
\* lowestPrice whose minimumBidPrice is a price or null.
PriceReplies ==
  [kind : {"raises", "data null", "no gpuTypes", "no lowestPrice"},
   price : {None}]
  \cup [kind : {"lowestPrice"}, price : Prices \cup {None}]

\* get_minimum_bid_price: the minimumBidPrice of the first gpuType; None when
\* the list is empty, lowestPrice is missing or anything raises an Exception
\* (None.get(...) for "data": null included).
get_minimum_bid_price(reply) ==
  IF reply.kind = "lowestPrice" THEN reply.price ELSE None

\* Python's truth value of an optional price: None and 0 are false.
Truthy(p) == p # None /\ p # 0

IdleBid ==
  /\ bidSpot = FALSE
  /\ bid_per_gpu = None
  /\ gpu_count = 0
  /\ secure_cloud = FALSE
  /\ bidPc = "idle"
  /\ price_queries = <<>>
  /\ min_bid = None
  /\ bid = None
  /\ mutations = <<>>

InitBid ==
  /\ bidSpot \in BOOLEAN
  /\ bid_per_gpu \in Prices \cup {None}
  /\ gpu_count \in 1..MaxGpus
  /\ secure_cloud \in BOOLEAN
  /\ bidPc = "choose"
  /\ price_queries = <<>>
  /\ min_bid = None
  /\ bid = None
  /\ mutations = <<>>

\* A bid chosen by the truth value of bid_per_gpu.
BidChooseTruthy ==
  /\ bidPc = "choose"
  /\ IF ~bidSpot
       THEN /\ bidPc' = "create"
            /\ UNCHANGED bid
       ELSE IF Truthy(bid_per_gpu)
       THEN /\ bid' = bid_per_gpu
            /\ bidPc' = "create"
       ELSE /\ bidPc' = "query"
            /\ UNCHANGED bid
  /\ UNCHANGED <<bidSpot, bid_per_gpu, gpu_count, secure_cloud,
                 price_queries, min_bid, mutations>>
  /\ UNCHANGED notBid

\* if spot: if bid_per_gpu is not None: bid = bid_per_gpu  else: query
BidChoose ==
  /\ bidPc = "choose"
  /\ IF ~bidSpot
       THEN /\ bidPc' = "create"
            /\ UNCHANGED bid
       ELSE IF bid_per_gpu # None
       THEN /\ bid' = bid_per_gpu
            /\ bidPc' = "create"
       ELSE /\ bidPc' = "query"
            /\ UNCHANGED bid
  /\ UNCHANGED <<bidSpot, bid_per_gpu, gpu_count, secure_cloud,
                 price_queries, min_bid, mutations>>
  /\ UNCHANGED notBid

\* bid = get_minimum_bid_price(gpu_type, gpu_count, secure_cloud): the query
\* asks for the price of one GPU.
BidQuery ==
  /\ bidPc = "query"
  /\ \E reply \in PriceReplies :
       /\ price_queries' =
            Append(price_queries,
                   [gpuCount |-> 1, secureCloud |-> secure_cloud,
                    reply |-> reply])
       /\ min_bid' = get_minimum_bid_price(reply)
  /\ bidPc' = "fallback"
  /\ UNCHANGED <<bidSpot, bid_per_gpu, gpu_count, secure_cloud, bid,
                 mutations>>
  /\ UNCHANGED notBid

\* if bid: print(...)  else: bid = 0.0
BidFallback ==
  /\ bidPc = "fallback"
  /\ bid' = IF Truthy(min_bid) THEN min_bid ELSE 0
  /\ bidPc' = "create"
  /\ UNCHANGED <<bidSpot, bid_per_gpu, gpu_count, secure_cloud,
                 price_queries, min_bid, mutations>>
  /\ UNCHANGED notBid

\* The create mutation: podRentInterruptable with bidPerGpu, or
\* podFindAndDeployOnDemand without.
BidCreate ==
  /\ bidPc = "create"
  /\ mutations' =
       Append(mutations,
              [mutation |-> IF bidSpot THEN "podRentInterruptable"
                            ELSE "podFindAndDeployOnDemand",
               bidPerGpu |-> bid,
               cloudType |-> IF secure_cloud THEN "SECURE" ELSE "ALL",
               gpuCount |-> gpu_count])
  /\ bidPc' = "created"
  /\ UNCHANGED <<bidSpot, bid_per_gpu, gpu_count, secure_cloud,
                 price_queries, min_bid, bid>>
  /\ UNCHANGED notBid

NextBid ==
  \/ BidChoose
  \/ BidQuery
  \/ BidFallback
  \/ BidCreate

\* ========================================================================
\* skypilot client._download_results_via_ssh: listing with fallback patterns,
\* then one scp per listed file
\* ========================================================================
\* max_retries = 5
max_retries == 5

\* The files a results directory can hold: {result_name}.json / .jsonl / .txt.
Stems == {"r1", "r2"}

Suffixes == {"json", "jsonl", "txt"}

ResultFiles == [stem : Stems, suffix : Suffixes]

\* A path under remote_path, and os.path.basename of it.
RemotePath(f) == [dir |-> "remote_path", stem |-> f.stem, suffix |-> f.suffix]

basename(p) == [stem |-> p.stem, suffix |-> p.suffix]

\* file_patterns, as the suffixes each `ls` command names.
file_patterns == << {"json", "txt"}, {"jsonl", "txt"}, {"txt"} >>

\* The order ls prints its file operands in: by name.
StemRank(s) == IF s = "r1" THEN 1 ELSE 2

SuffixRank(x) == IF x = "json" THEN 1 ELSE IF x = "jsonl" THEN 2 ELSE 3

NameBefore(f, g) ==
  \/ StemRank(f.stem) < StemRank(g.stem)
  \/ f.stem = g.stem /\ SuffixRank(f.suffix) < SuffixRank(g.suffix)

RECURSIVE InNameOrder(_)
InNameOrder(S) ==
  IF S = {} THEN <<>>
  ELSE LET first == CHOOSE f \in S : \A g \in S \ {f} : NameBefore(f, g)
       IN  <<RemotePath(first)>> \o InNameOrder(S \ {first})

\* stdout of `ls {remote_path}/*.x {remote_path}/*.y 2>/dev/null`: the files
\* either glob matches; a glob that matches nothing costs only a message on
\* the discarded stderr.
Ls(dir, suffixes) == InNameOrder({f \in dir : f.suffix \in suffixes})

\* How one ssh listing command ends.
ListOutcomes ==
  {"ok", "Connection refused", "Could not resolve hostname",
   "TimeoutExpired", "Exception", "KeyboardInterrupt"}

\* How one scp command ends.
ScpOutcomes == {"rc 0", "rc 1", "Exception", "KeyboardInterrupt"}

NoSshResult == [status |-> "none", files |-> <<>>]

IdleSsh ==
  /\ remote_dir = {}
  /\ sshPc = "idle"
  /\ ssh_attempt = 0
  /\ ssh_connected = FALSE
  /\ pattern_i = 0
  /\ listed_files = <<>>
  /\ file_i = 0
  /\ scp_runs = <<>>
  /\ downloaded_files = <<>>
  /\ sshLog = <<>>
  /\ sshResult = NoSshResult
  /\ sshExc = "none"

InitSsh ==
  /\ remote_dir \in SUBSET ResultFiles
  /\ sshPc = "list"
  /\ ssh_attempt = 0
  /\ ssh_connected = FALSE
  /\ pattern_i = 1
  /\ listed_files = <<>>
  /\ file_i = 0
  /\ scp_runs = <<>>
  /\ downloaded_files = <<>>
  /\ sshLog = <<>>
  /\ sshResult = NoSshResult
  /\ sshExc = "none"

\* The end of one pass of `for attempt in range(max_retries)` that did not
\* break: the next pass, or the end of the loop.
NextAttempt ==
  /\ ssh_attempt' = ssh_attempt + 1
  /\ pattern_i' = 1
  /\ sshPc' = IF ssh_attempt + 1 < max_retries THEN "list" ELSE "check"

\* After the pattern loop: `if remote_files or ssh_connected: break`.
AfterPatterns(found, connected) ==
  IF found # <<>> \/ connected
    THEN /\ sshPc' = "check"
         /\ UNCHANGED <<ssh_attempt, pattern_i>>
    ELSE NextAttempt

\* One `ls` of the pattern loop, with what follows it up to the next command.
SshList ==
  /\ sshPc = "list"
  /\ \E o \in ListOutcomes :
       CASE o = "ok" ->
              LET found_files == Ls(remote_dir, file_patterns[pattern_i])
              IN  /\ ssh_connected' = TRUE
                  /\ IF found_files # <<>>
                       THEN /\ listed_files' = found_files
                            /\ AfterPatterns(found_files, TRUE)
                       ELSE /\ UNCHANGED listed_files
                            /\ IF pattern_i < Len(file_patterns)
                                 THEN /\ pattern_i' = pattern_i + 1
                                      /\ UNCHANGED <<sshPc, ssh_attempt>>
                                 ELSE AfterPatterns(listed_files, TRUE)
                  /\ UNCHANGED sshExc
         [] o \in {"Connection refused", "Could not resolve hostname"} ->
              /\ AfterPatterns(listed_files, ssh_connected)
              /\ UNCHANGED <<ssh_connected, listed_files, sshExc>>
         [] o \in {"TimeoutExpired", "Exception"} ->
              /\ NextAttempt
              /\ UNCHANGED <<ssh_connected, listed_files, sshExc>>
         [] o = "KeyboardInterrupt" ->
              /\ sshExc' = "KeyboardInterrupt"
              /\ sshPc' = "raised"
              /\ UNCHANGED <<ssh_connected, listed_files, ssh_attempt,
                             pattern_i>>
  /\ UNCHANGED <<remote_dir, file_i, scp_runs, downloaded_files, sshLog,
                 sshResult>>
  /\ UNCHANGED notSsh

\* if not ssh_connected: return error;  if not remote_files: return success
\* with no files;  else the scp loop.
SshCheck ==
  /\ sshPc = "check"
  /\ IF ~ssh_connected
       THEN /\ sshResult' = [status |-> "error", files |-> <<>>]
            /\ sshPc' = "done"
            /\ UNCHANGED file_i
       ELSE IF listed_files = <<>>
       THEN /\ sshResult' = [status |-> "success", files |-> <<>>]
            /\ sshPc' = "done"
            /\ UNCHANGED file_i
       ELSE /\ sshPc' = "scp"
            /\ file_i' = 1
            /\ UNCHANGED sshResult
  /\ UNCHANGED <<remote_dir, ssh_attempt, ssh_connected, pattern_i,
                 listed_files, scp_runs, downloaded_files, sshLog, sshExc>>
  /\ UNCHANGED notSsh

\* An scp loop in which the first failed transfer ends the loop.
SshScpStopsAtFailure ==
  /\ sshPc = "scp"
  /\ file_i <= Len(listed_files)
  /\ \E o \in ScpOutcomes :
       LET filename == basename(listed_files[file_i])
       IN  /\ scp_runs' = Append(scp_runs, [remote_file |-> listed_files[file_i],
                                            outcome |-> o])
           /\ CASE o = "rc 0" ->
                     /\ downloaded_files' = Append(downloaded_files, filename)
                     /\ sshLog' = Append(sshLog, [event |-> "Downloaded",
                                                  filename |-> filename])
                     /\ file_i' = file_i + 1
                     /\ UNCHANGED <<sshPc, sshExc>>
                [] o \in {"rc 1", "Exception"} ->
                     /\ sshLog' = Append(sshLog, [event |-> "Failed to download",
                                                  filename |-> filename])
                     /\ file_i' = Len(listed_files) + 1
                     /\ UNCHANGED <<downloaded_files, sshPc, sshExc>>
                [] o = "KeyboardInterrupt" ->
                     /\ sshExc' = "KeyboardInterrupt"
                     /\ sshPc' = "raised"
                     /\ UNCHANGED <<downloaded_files, sshLog, file_i>>
  /\ UNCHANGED <<remote_dir, ssh_attempt, ssh_connected, pattern_i,
                 listed_files, sshResult>>
  /\ UNCHANGED notSsh

\* One pass of `for remote_file in remote_files`: scp, and on return code 0
\* the basename joins downloaded_files; another return code or an Exception
\* (a timeout included) is printed.
SshScp ==
  /\ sshPc = "scp"
  /\ file_i <= Len(listed_files)
  /\ \E o \in ScpOutcomes :
       LET filename == basename(listed_files[file_i])
       IN  /\ scp_runs' = Append(scp_runs, [remote_file |-> listed_files[file_i],
                                            outcome |-> o])
           /\ CASE o = "rc 0" ->
                     /\ downloaded_files' = Append(downloaded_files, filename)
                     /\ sshLog' = Append(sshLog, [event |-> "Downloaded",
                                                  filename |-> filename])
                     /\ file_i' = file_i + 1
                     /\ UNCHANGED <<sshPc, sshExc>>
                [] o \in {"rc 1", "Exception"} ->
                     /\ sshLog' = Append(sshLog, [event |-> "Failed to download",
                                                  filename |-> filename])
                     /\ file_i' = file_i + 1
                     /\ UNCHANGED <<downloaded_files, sshPc, sshExc>>
                [] o = "KeyboardInterrupt" ->
                     /\ sshExc' = "KeyboardInterrupt"
                     /\ sshPc' = "raised"
                     /\ UNCHANGED <<downloaded_files, sshLog, file_i>>
  /\ UNCHANGED <<remote_dir, ssh_attempt, ssh_connected, pattern_i,
                 listed_files, sshResult>>
  /\ UNCHANGED notSsh

\* return {"status": "success", "local_dir": ..., "files": downloaded_files}
SshReturn ==
  /\ sshPc = "scp"
  /\ file_i > Len(listed_files)
  /\ sshResult' = [status |-> "success", files |-> downloaded_files]
  /\ sshPc' = "done"
  /\ UNCHANGED <<remote_dir, ssh_attempt, ssh_connected, pattern_i,
                 listed_files, file_i, scp_runs, downloaded_files, sshLog,
                 sshExc>>
  /\ UNCHANGED notSsh

NextSsh ==
  \/ SshList
  \/ SshCheck
  \/ SshScp
  \/ SshReturn

\* ========================================================================
\* runner.run / vllm.bench._run on a remote host: run_remote, then
\* runner._download_results over paramiko and scp
\* ========================================================================
\* A key of a dict that is not set; for the port, None.
Absent == "absent"

\* os.path.expanduser of a key path.
expanduser(p) == IF p = "~/key" THEN "/home/user/key" ELSE p

\* str.lstrip("./") of a directory: every leading '.' and '/' goes.
lstrip(p) ==
  CASE p = "./benchmark_results" -> "benchmark_results"
    [] p = "./out_a" -> "out_a"
    [] p = "./out_b" -> "out_b"
    [] OTHER -> p

\* The remote section of a config.
RemoteCfgs ==
  [host : {"gpu-host"},
   port : {None, 22, 2222},
   username : {Absent, "ubuntu"},
   password : {Absent, "secret"},
   key_filename : {Absent, "~/key"}]

\* A run entry: flattened (save_results and output_dir beside the name) or
\* with a benchmark section holding them.
FetchRunCfgs ==
  [form : {"flattened", "benchmark section"},
   save_results : BOOLEAN,
   output_dir : {Absent, "./out_a", "./out_b"}]

FetchPlans == UNION {[1..n -> FetchRunCfgs] : n \in 1..MaxPlan}

\* run_remote: benchmark_cfg = run_cfg.get("benchmark", run_cfg), then
\* save_results and output_dir with their defaults.
RemoteSaves(cfg) == cfg.save_results

RemoteOutputDir(cfg) ==
  IF cfg.output_dir = Absent THEN "./benchmark_results" ELSE cfg.output_dir

\* _download_results: benchmark_cfg = run_cfg.get("benchmark", {}): a
\* flattened entry shows it no save_results and no output_dir.
LocalSaves(cfg) == cfg.form = "benchmark section" /\ cfg.save_results

LocalOutputDir(cfg) ==
  IF cfg.output_dir = Absent THEN "./benchmark_results" ELSE cfg.output_dir

\* The output_dir of the first entry whose benchmark section has save_results;
\* "./benchmark_results" without one.
RECURSIVE FirstSavingDir(_, _)
FirstSavingDir(cfgs, i) ==
  IF i > Len(cfgs) THEN "./benchmark_results"
  ELSE IF LocalSaves(cfgs[i]) THEN LocalOutputDir(cfgs[i])
  ELSE FirstSavingDir(cfgs, i + 1)

\* What the run on the remote host leaves behind: for every entry that saves
\* results, a .json and a .txt file of its trial in its output_dir.
WrittenBy(cfgs) ==
  {[dir |-> RemoteOutputDir(cfgs[i]), entry |-> i, suffix |-> x] :
     i \in {k \in 1..Len(cfgs) : RemoteSaves(cfgs[k])},
     x \in {"json", "txt"}}

\* What opens the session: the endpoint and the credentials offered.
NoArgs ==
  [host |-> "", port |-> None, username |-> "", password |-> Absent,
   key_filename |-> Absent]

\* @remote(host, username, **remote_kwargs): password and key_filename are
\* passed when set, the port when it is not 22 (22 otherwise).
RemoteSessionArgs(cfg) ==
  [host |-> cfg.host,
   port |-> IF cfg.port = None THEN 22 ELSE cfg.port,
   username |-> IF cfg.username = Absent THEN "root" ELSE cfg.username,
   password |-> cfg.password,
   key_filename |-> expanduser(cfg.key_filename)]

\* ssh.connect(host, port=port, username=username, key_filename=key_filename)
SshConnectArgs(cfg) ==
  [host |-> cfg.host,
   port |-> IF cfg.port = None THEN 22 ELSE cfg.port,
   username |-> IF cfg.username = Absent THEN "root" ELSE cfg.username,
   password |-> Absent,
   key_filename |-> expanduser(cfg.key_filename)]

\* The target lets a session in when it accepts one of the credentials the
\* session offers.
Authenticates(args, accepts) ==
  \/ args.password # Absent /\ "password" \in accepts
  \/ args.key_filename # Absent /\ "key" \in accepts

NoFetchResult == [status |-> "none", host |-> ""]

IdleFetch ==
  /\ remote_cfg = NoArgs
  /\ fetch_runs = <<>>
  /\ target_accepts = {}
  /\ remote_tree = {}
  /\ fetchPc = "idle"
  /\ session_args = NoArgs
  /\ connect_args = NoArgs
  /\ output_dir = ""
  /\ fetched = {}
  /\ fetchLog = <<>>
  /\ fetchResult = NoFetchResult

InitFetch ==
  /\ remote_cfg \in RemoteCfgs
  /\ fetch_runs \in FetchPlans
  /\ target_accepts \in SUBSET {"password", "key"}
  /\ remote_tree = {}
  /\ fetchPc = "run_remote"
  /\ session_args = NoArgs
  /\ connect_args = NoArgs
  /\ output_dir = ""
  /\ fetched = {}
  /\ fetchLog = <<>>
  /\ fetchResult = NoFetchResult

\* run_remote(config, remote_cfg): the session is opened and the plan runs on
\* the remote host; a session that cannot be opened raises.
FetchRunRemote ==
  /\ fetchPc = "run_remote"
  /\ session_args' = RemoteSessionArgs(remote_cfg)
  /\ IF Authenticates(session_args', target_accepts)
       THEN /\ remote_tree' = WrittenBy(fetch_runs)
            /\ fetchPc' = "download"
       ELSE /\ fetchPc' = "raised"
            /\ UNCHANGED remote_tree
  /\ UNCHANGED <<remote_cfg, fetch_runs, target_accepts, connect_args,
                 output_dir, fetched, fetchLog, fetchResult>>
  /\ UNCHANGED notFetch

\* _download_results up to the test for the remote directory: output_dir is
\* chosen, the connection opened; a refused connection raises into the
\* caller's `except Exception`, a missing directory returns.
FetchConnect ==
  /\ fetchPc = "download"
  /\ output_dir' = FirstSavingDir(fetch_runs, 1)
  /\ connect_args' = SshConnectArgs(remote_cfg)
  /\ IF ~Authenticates(connect_args', target_accepts)
       THEN /\ fetchLog' = Append(fetchLog, "Failed to download results")
            /\ fetchPc' = "return"
       ELSE IF ~\E f \in remote_tree : f.dir = output_dir'
       THEN /\ fetchLog' = Append(fetchLog, "No results found")
            /\ fetchPc' = "return"
       ELSE /\ fetchPc' = "json"
            /\ UNCHANGED fetchLog
  /\ UNCHANGED <<remote_cfg, fetch_runs, target_accepts, remote_tree,
                 session_args, fetched, fetchResult>>
  /\ UNCHANGED notFetch

\* `ls {output_dir}/*.x` and one scp.get per file listed; a transfer that
\* raises is printed and the loop goes on.
FetchSuffix(x, nextPc) ==
  /\ LET listed == {f \in remote_tree : f.dir = output_dir /\ f.suffix = x}
     IN  \E failed \in SUBSET listed :
           /\ fetched' =
                fetched \cup
                  {[dir |-> lstrip(output_dir), entry |-> f.entry,
                    suffix |-> f.suffix] : f \in listed \ failed}
           /\ fetchLog' =
                IF failed = {} THEN fetchLog
                ELSE Append(fetchLog, "Failed to download")
  /\ fetchPc' = nextPc
  /\ UNCHANGED <<remote_cfg, fetch_runs, target_accepts, remote_tree,
                 session_args, connect_args, output_dir, fetchResult>>
  /\ UNCHANGED notFetch

FetchJson == fetchPc = "json" /\ FetchSuffix("json", "txt")

FetchTxt == fetchPc = "txt" /\ FetchSuffix("txt", "return")

\* return {"status": "success", "mode": "remote", "host": ...}
FetchReturn ==
  /\ fetchPc = "return"
  /\ fetchResult' = [status |-> "success", host |-> remote_cfg.host]
  /\ fetchPc' = "done"
  /\ UNCHANGED <<remote_cfg, fetch_runs, target_accepts, remote_tree,
                 session_args, connect_args, output_dir, fetched, fetchLog>>
  /\ UNCHANGED notFetch

NextFetch ==
  \/ FetchRunRemote
  \/ FetchConnect
  \/ FetchJson
  \/ FetchTxt
  \/ FetchReturn

\* ========================================================================
\* run_remote / vllm.run: the trial loops of one flattened run entry and the
\* result_name of each trial
\* ========================================================================
\* The elements of parallelism_pairs.
ParallelismPairs ==
  [tensor_parallel : {1, 2}, data_parallel : {1, 2},
   pipeline_parallel : {1, 2}]

PairLists == UNION {[1..n -> ParallelismPairs] : n \in 1..2}

\* The lists context_size, concurrency, num_prompts and output_len.
ParameterLists == {<<1>>, <<1, 2>>}

\* f"{name}_TP{tp}_DP{dp}_CTX{ctx}_C{concurrency}_P{num_prompts}_O{output_len}"
FlatResultName(name, pair, ctx, concurrency, num_prompts, output_len) ==
  <<name, "_TP", ToString(pair.tensor_parallel),
    "_DP", ToString(pair.data_parallel),
    "_CTX", ToString(ctx), "_C", ToString(concurrency),
    "_P", ToString(num_prompts), "_O", ToString(output_len)>>

\* The position in the four nested loops under one pair: the indices into
\* context_sizes, concurrencies, num_prompts_list and output_lens.
FirstPosition == <<1, 1, 1, 1>>

LastPosition(at) ==
  /\ at[2] = Len(flat_contexts)
  /\ at[3] = Len(flat_concurrencies)
  /\ at[4] = Len(flat_prompts)
  /\ at[5] = Len(flat_output_lens)

\* The next position of the nested loops, the innermost loop running fastest.
NextPosition(at) ==
  IF at[5] < Len(flat_output_lens) THEN [at EXCEPT ![5] = @ + 1]
  ELSE IF at[4] < Len(flat_prompts)
    THEN [at EXCEPT ![4] = @ + 1, ![5] = 1]
  ELSE IF at[3] < Len(flat_concurrencies)
    THEN [at EXCEPT ![3] = @ + 1, ![4] = 1, ![5] = 1]
  ELSE [at EXCEPT ![2] = @ + 1, ![3] = 1, ![4] = 1, ![5] = 1]

IdleFlat ==
  /\ flat_pairs = <<>>
  /\ flat_contexts = <<>>
  /\ flat_concurrencies = <<>>
  /\ flat_prompts = <<>>
  /\ flat_output_lens = <<>>
  /\ flatPc = "idle"
  /\ flat_at = <<>>
  /\ flat_servers = <<>>
  /\ flat_trials = <<>>

InitFlat ==
  /\ flat_pairs \in PairLists
  /\ flat_contexts \in ParameterLists
  /\ flat_concurrencies \in ParameterLists
  /\ flat_prompts \in ParameterLists
  /\ flat_output_lens \in ParameterLists
  /\ flatPc = "pair"
  /\ flat_at = <<1>> \o FirstPosition
  /\ flat_servers = <<>>
  /\ flat_trials = <<>>

\* `for pair in parallelism_pairs: with VLLMServer(model_path, port, tp, dp,
\* pp, ...)`: the server of the pair starts.
FlatServerStart ==
  /\ flatPc = "pair"
  /\ flat_at[1] <= Len(flat_pairs)
  /\ flat_servers' = Append(flat_servers, flat_pairs[flat_at[1]])
  /\ flatPc' = "trial"
  /\ UNCHANGED <<flat_pairs, flat_contexts, flat_concurrencies, flat_prompts,
                 flat_output_lens, flat_at, flat_trials>>
  /\ UNCHANGED notFlat

\* One pass of the innermost loop: the result_name is built and run_benchmark
\* called with it.
FlatTrial ==
  /\ flatPc = "trial"
  /\ LET pair == flat_pairs[flat_at[1]]
         ctx == flat_contexts[flat_at[2]]
         concurrency == flat_concurrencies[flat_at[3]]
         num_prompts == flat_prompts[flat_at[4]]
         output_len == flat_output_lens[flat_at[5]]
     IN  flat_trials' =
           Append(flat_trials,
                  [result_name |->
                     FlatResultName("run", pair, ctx, concurrency,
                                    num_prompts, output_len),
                   pair |-> pair, ctx |-> ctx, concurrency |-> concurrency,
                   num_prompts |-> num_prompts, output_len |-> output_len])
  /\ IF LastPosition(flat_at)
       THEN /\ flatPc' = "stop"
            /\ UNCHANGED flat_at
       ELSE /\ flat_at' = NextPosition(flat_at)
            /\ UNCHANGED flatPc
  /\ UNCHANGED <<flat_pairs, flat_contexts, flat_concurrencies, flat_prompts,
                 flat_output_lens, flat_servers>>
  /\ UNCHANGED notFlat

\* The end of the with block of one pair, and time.sleep(5).
FlatServerStop ==
  /\ flatPc = "stop"
  /\ flat_at' = <<flat_at[1] + 1>> \o FirstPosition
  /\ flatPc' = "pair"
  /\ UNCHANGED <<flat_pairs, flat_contexts, flat_concurrencies, flat_prompts,
                 flat_output_lens, flat_servers, flat_trials>>
  /\ UNCHANGED notFlat

\* The pairs are exhausted.
FlatReturn ==
  /\ flatPc = "pair"
  /\ flat_at[1] > Len(flat_pairs)
  /\ flatPc' = "done"
  /\ UNCHANGED <<flat_pairs, flat_contexts, flat_concurrencies, flat_prompts,
                 flat_output_lens, flat_at, flat_servers, flat_trials>>
  /\ UNCHANGED notFlat

NextFlat ==
  \/ FlatServerStart
  \/ FlatTrial
  \/ FlatServerStop
  \/ FlatReturn

\* ========================================================================
\* Every function but `own` is at rest.
AllIdleBut(own) ==
  /\ IF own = "E2E" THEN TRUE ELSE IdleE2E
  /\ IF own = "Seq" THEN TRUE ELSE IdleSeq
  /\ IF own = "Sky" THEN TRUE ELSE IdleSky
  /\ IF own = "Delete" THEN TRUE ELSE IdleDelete
  /\ IF own = "Wait" THEN TRUE ELSE IdleWait
  /\ IF own = "Flags" THEN TRUE ELSE IdleFlags
  /\ IF own = "Name" THEN TRUE ELSE IdleName
  /\ IF own = "Bench" THEN TRUE ELSE IdleBench
  /\ IF own = "Cloud" THEN TRUE ELSE IdleCloud
  /\ IF own = "Cli" THEN TRUE ELSE IdleCli
  /\ IF own = "Api" THEN TRUE ELSE IdleApi
  /\ IF own = "Health" THEN TRUE ELSE IdleHealth
  /\ IF own = "Stop" THEN TRUE ELSE IdleStop
  /\ IF own = "Plan" THEN TRUE ELSE IdlePlan
  /\ IF own = "Bid" THEN TRUE ELSE IdleBid
  /\ IF own = "Ssh" THEN TRUE ELSE IdleSsh
  /\ IF own = "Fetch" THEN TRUE ELSE IdleFetch
  /\ IF own = "Flat" THEN TRUE ELSE IdleFlat

Init == InitE2E /\ AllIdleBut("E2E")

NextE2E ==
  \/ FromYaml
  \/ CallDeploy
  \/ DeploySpotAttempt
  \/ DeploySpotExhausted
  \/ DeployOnDemand
  \/ WaitForPodPoll
  \/ WaitForPodInterrupted
  \/ WaitForPodExhausted
  \/ DeployExitToCaller
  \/ DeployExitToE2E
  \/ RunRemote
  \/ Download
  \/ ExceptHandler
  \/ Finally
  \/ E2EExit

Next == NextE2E

Spec == Init /\ [][Next]_vars

SpecE2E == Init /\ [][NextE2E]_vars

\* _run_benchmarks alone: nothing else is running.
StartSeq == InitSeq /\ AllIdleBut("Seq")

SpecSeq == StartSeq /\ [][NextSeq]_vars

\* skypilot.bench.from_yaml alone: nothing else is running.
StartSky == InitSky /\ AllIdleBut("Sky")

SpecSky == StartSky /\ [][NextSky]_vars

\* client.delete alone: nothing else is running.
StartDelete == InitDelete /\ AllIdleBut("Delete")

SpecDelete == StartDelete /\ [][NextDelete]_vars

\* client.wait_for_pod alone: nothing else is running.
StartWait == InitWait /\ AllIdleBut("Wait")

SpecWait == StartWait /\ [][NextWait]_vars

\* deploy with its abstract wait, or wait_for_pod in detail: one of them runs.
StartReadiness == Init \/ StartWait

NextReadiness == NextE2E \/ NextWait

SpecReadiness == StartReadiness /\ [][NextReadiness]_vars

\* The flag loop alone: nothing else is running.
StartFlags == InitFlags /\ AllIdleBut("Flags")

SpecFlags == StartFlags /\ [][NextFlags]_vars

\* _generate_result_name alone: nothing else is running.
StartName == InitName /\ AllIdleBut("Name")

SpecName == StartName /\ [][NextName]_vars

\* run_benchmark alone: nothing else is running.
StartBench == InitBench /\ AllIdleBut("Bench")

SpecBench == StartBench /\ [][NextBench]_vars

\* A fault-free run of runpod.bench.from_yaml alone.
StartCloud == InitCloud /\ AllIdleBut("Cloud")

SpecCloud == StartCloud /\ [][NextCloud]_vars

\* One invocation of the command line alone.
StartCli == InitCli /\ AllIdleBut("Cli")

SpecCli == StartCli /\ [][NextCli]_vars

\* benchmaq.bench alone.
StartApi == InitApi /\ AllIdleBut("Api")

SpecApi == StartApi /\ [][NextApi]_vars

\* _wait_for_health alone.
StartHealth == InitHealth /\ AllIdleBut("Health")

SpecHealth == StartHealth /\ [][NextHealth]_vars

\* stop() alone.
StartStop == InitStop /\ AllIdleBut("Stop")

SpecStop == StartStop /\ [][NextStop]_vars

\* The loop over the plan entries alone.
StartPlan == InitPlan /\ AllIdleBut("Plan")

SpecPlan == StartPlan /\ [][NextPlan]_vars

\* The bid of one deploy call alone.
StartBid == InitBid /\ AllIdleBut("Bid")

SpecBid == StartBid /\ [][NextBid]_vars

\* One call of _download_results_via_ssh alone.
StartSsh == InitSsh /\ AllIdleBut("Ssh")

SpecSsh == StartSsh /\ [][NextSsh]_vars

\* One remote run with its download alone.
StartFetch == InitFetch /\ AllIdleBut("Fetch")

SpecFetch == StartFetch /\ [][NextFetch]_vars

\* The trial loops of one flattened entry alone.
StartFlat == InitFlat /\ AllIdleBut("Flat")

SpecFlat == StartFlat /\ [][NextFlat]_vars

\* The steps of the sequencer's own thread, which runs on as long as it can;
\* the death of a child, the freeing of a port and Ctrl-C are up to the
\* outside world.
SeqStep ==
  \/ EntryBegin
  \/ PlanDone
  \/ ServerStart
  \/ HealthProbe
  \/ TrialStart
  \/ Trial
  \/ TrialsDone
  \/ StopBegin
  \/ StopWait
  \/ StopProbe
  \/ StopProbeExhausted
  \/ LeaveEntry

SpecSeqFair == StartSeq /\ [][NextSeq]_vars /\ WF_vars(SeqStep)

\* The two entry points that download results before they destroy the
\* machine: one of them runs.
StartDownload == Init \/ StartSky

NextDownload == NextE2E \/ NextSky

SpecDownload == StartDownload /\ [][NextDownload]_vars

\* ================================================================ claims

\* run_e2e is over: it returned or raised into from_yaml.
E2EOver == entry = "from_yaml" /\ e2ePc = "done"

\* C1 (as claimed): whenever the provider's create call succeeded, run_e2e
\* reaches a delete call for that pod before it returns or raises.
C1_DeleteAfterCreate ==
  (E2EOver /\ created # "") =>
    \E i \in 1..Len(deleteCalls) : deleteCalls[i] = created

\* C2: once run_e2e holds the pod id deploy returned, delete is called exactly
\* once, with that id, whatever fails afterwards (run_remote raising, the
\* download raising, KeyboardInterrupt during the remote run).
C2_DeleteExactlyOnce ==
  (E2EOver /\ pod_id # "") => deleteCalls = <<created>>

C2_Witness ==
  /\ E2EOver
  /\ pod_id # ""
  /\ remoteOutcome = "KeyboardInterrupt"
  /\ deleteCalls = <<pod_id>>

\* C3 (as claimed): the server of an entry is started only when no earlier
\* child is alive, and stop() has returned only with the child terminated and
\* a bind probe on its port having succeeded, whether the child exited on
\* SIGINT, was killed, released its port slowly, or had already exited.
C3_StopConfirmsRelease ==
  /\ seqPc = "enter" => proc # "running"
  /\ seqPc = "with_exit" => (stops > 0 /\ proc = "exited" /\ released)

\* C4 (as claimed): when start() returned False (attempts exhausted), no
\* run_benchmark of that entry is executed.
C4_UnhealthyEntryAborted ==
  healthResult = "False" => bench_index = 0

\* C5: for an entry whose start() returned, stop() is not called while the
\* trials run and has been called exactly once when the sequencer goes on to
\* the next entry, returns, or lets the exception of a trial propagate.
C5_StopExactlyOnce ==
  /\ stops <= 1
  /\ (startReturned /\ seqPc \in {"trials", "trial", "exit"}) => stops = 0
  /\ (startReturned /\ seqPc \in {"with_exit", "entry", "raised", "done"})
       => stops = 1

C5_Witness ==
  /\ seqPc = "raised"
  /\ startReturned
  /\ bench_index > 0
  /\ seqExc.type = "Exception"
  /\ stops = 1

\* A create response that is a provider error (error body or raised error).
IsProviderError(r) == r.kind \in {"errors", "raise"}

AllTransient ==
  \A i \in 1..Len(createLog) :
    IsProviderError(createLog[i]) /\ IsTransient(createLog[i].msg)

LastMessage ==
  IF createLog = <<>> THEN <<>> ELSE createLog[Len(createLog)].msg

\* C11: a failed result download (an exception of _download_results or of
\* download_results, a missing remote directory, a file or a result directory
\* that could not be copied, a non-success status) is only printed: the pod is
\* still deleted / the cluster still torn down, and the status is success
\* unless Ctrl-C arrived afterwards.
DownloadFailedE2E ==
  downloadOutcome \in {"not_found", "file_failed", "Exception"}

DownloadFailedSky ==
  \E i \in 1..Len(downloadLog) : downloadLog[i] \in {"failed", "Exception"}

C11_DownloadFailureOnlyLogged ==
  /\ (E2EOver /\ DownloadFailedE2E) =>
       /\ deleteCalls = <<pod_id>>
       /\ status = "success" \/ exc = KeyboardInterrupt
  /\ (skyPc = "done" /\ DownloadFailedSky) =>
       /\ Len(teardownLog) >= 1
       /\ skyStatus \in {"success", "interrupted"}

C11_Witness ==
  /\ E2EOver
  /\ downloadOutcome = "Exception"
  /\ deleteCalls = <<pod_id>>
  /\ status = "success"

C11_WitnessSky ==
  /\ skyPc = "done"
  /\ DownloadFailedSky
  /\ Len(teardownLog) = 1
  /\ skyStatus = "success"

\* delete has returned or raised.
DeleteOver == delPc = "done"

\* The name passed to delete resolves to no pod of the listing, or the id
\* passed is the id of no pod.
AddressedPodMissing ==
  \/ /\ argPodId = "" /\ argName # ""
     /\ delExc.text # "get_pods"
     /\ find_by_name(listing, argName) = NoInstance
  \/ /\ argPodId # ""
     /\ \A i \in 1..Len(pods) : pods[i].id # argPodId
     /\ delExc # NoExc

\* C12 (as claimed): delete for a pod that no longer exists, addressed by id
\* or by a name that no longer resolves, returns normally and does not raise.
C12_DeleteOfMissingPodSucceeds ==
  (DeleteOver /\ AddressedPodMissing) =>
    (delExc = NoExc /\ delResult.status = "deleted")

\* C13: a delete that returns has issued exactly one terminate call, for the
\* id passed or, when only a name was passed, for the id of a listed pod of
\* that name, and returns status "deleted" with that id; a delete that raises
\* before terminate_pod has issued no terminate call.
C13_DeleteTerminatesAddressed ==
  /\ (DeleteOver /\ delExc = NoExc) =>
       /\ Len(terminateCalls) = termBefore + 1
       /\ terminateCalls[Len(terminateCalls)] = resolvedId
       /\ delResult = [status |-> "deleted", id |-> resolvedId, name |-> argName]
       /\ argPodId # "" => resolvedId = argPodId
       /\ argPodId = "" =>
            \E i \in 1..Len(listing) :
               listing[i].id = resolvedId /\ listing[i].name = argName
  /\ (DeleteOver /\ delExc # NoExc /\ delExc.text # "terminate_pod") =>
       Len(terminateCalls) = termBefore

C13_Witness ==
  /\ DeleteOver
  /\ delExc = NoExc
  /\ argPodId = "" /\ argName # ""
  /\ Len(listing) = 2
  /\ listing[1].name # argName
  /\ delResult = [status |-> "deleted", id |-> listing[2].id, name |-> argName]
  /\ terminateCalls = <<listing[2].id>>

\* C14: wait_for_pod returns ready=True only when, in the poll it returns
\* from, the pod query answered RUNNING with runtime, the ports held a
\* mapping of private port 22 with an ip and a public port, and the SSH
\* handshake to exactly that ip and port succeeded; the endpoint returned is
\* the one of that handshake.
C14_ReadyOnlyAfterHandshake ==
  wResult.ready =>
    /\ wObserved = [poll |-> wI + 1, pod |-> "running"]
    /\ wResult.ssh.ip # "" /\ wResult.ssh.port # 0
    /\ \E k \in 1..Len(wPorts) :
         /\ wPorts[k].privatePort = 22
         /\ wPorts[k].ip = wResult.ssh.ip
         /\ wPorts[k].publicPort = wResult.ssh.port
    /\ handshakes # <<>>
    /\ handshakes[Len(handshakes)] =
         [poll |-> wI + 1, ip |-> wResult.ssh.ip, port |-> wResult.ssh.port,
          ok |-> TRUE]

C14_Witness ==
  /\ wResult.ready
  /\ wI = 1
  /\ Len(handshakes) = 2
  /\ ~handshakes[1].ok
  /\ Len(wPorts) = 2
  /\ wPorts[1].privatePort # 22 /\ wPorts[1].ip # "" /\ wPorts[1].publicPort # 0

\* C15: wait_for_pod raises no Exception; when no poll ends in a successful
\* handshake (provider queries failing included) it returns
\* {ready: False, ssh: None} after exactly `retry` polls; deploy with
\* wait_for_ready then raises ("Pod failed to start") after exactly
\* health_check_retries polls and returns no instance.
C15_NotReadyAfterRetryPolls ==
  /\ (wPc = "done" /\ wExc # NoExc) => wExc = KeyboardInterrupt
  /\ (wPc = "done" /\ wExc = NoExc /\ ~wResult.ready) =>
       /\ wResult.returned
       /\ wResult.ssh = NoSshInfo
       /\ wI = retry
  /\ exc.text = "Pod failed to start" =>
       /\ polls = health_check_retries
       /\ ~instance.ssh
  /\ (entry = "deploy" /\ e2ePc = "done" /\ wait_for_ready /\ created # ""
        /\ ~instance.ssh) => status = "raised"

C15_Witness ==
  /\ wPc = "done"
  /\ wResult = [ready |-> FALSE, ssh |-> NoSshInfo, returned |-> TRUE]
  /\ retry = MaxPolls
  /\ wI = retry
  /\ wObserved.pod = "raises"
  /\ Len(handshakes) > 0

C15_WitnessDeploy ==
  /\ entry = "deploy" /\ e2ePc = "done" /\ wait_for_ready
  /\ health_check_retries = MaxPolls
  /\ polls = MaxPolls
  /\ exc.text = "Pod failed to start"
  /\ status = "raised"

\* The tokens the translation is to emit for one item: nothing for False and
\* None, the flag alone for True, the flag and the stringified value else.
ClaimedTokens(item) ==
  LET flag == <<"--">> \o [i \in 1..Len(item.key) |->
                              IF item.key[i] = "_" THEN "-" ELSE item.key[i]]
  IN  IF item.value = [t |-> "bool", v |-> TRUE] THEN <<flag>>
      ELSE IF item.value.t \in {"bool", "none"} THEN <<>>
      ELSE IF item.value.t = "int" THEN <<flag, <<ToString(item.value.v)>> >>
      ELSE <<flag, <<item.value.v>> >>

RECURSIVE ClaimedFlags(_)
ClaimedFlags(bag) ==
  IF bag = <<>> THEN <<>>
  ELSE ClaimedTokens(Head(bag)) \o ClaimedFlags(Tail(bag))

ExampleBag ==
  << [key |-> <<"tensor", "_", "parallel", "_", "size">>,
      value |-> [t |-> "int", v |-> 4]],
     [key |-> <<"disable", "_", "log", "_", "requests">>,
      value |-> [t |-> "bool", v |-> TRUE]],
     [key |-> <<"dtype">>, value |-> [t |-> "none", v |-> 0]] >>

ExampleFlags ==
  << <<"--", "tensor", "-", "parallel", "-", "size">>, <<"4">>,
     <<"--", "disable", "-", "log", "-", "requests">> >>

\* C16: the flags appended to the base command are, in the bag's key order,
\* "--" + key with "_" replaced by "-", alone for True, absent for False and
\* None, followed by str(value) for any other value (0 and "" included);
\* {tensor_parallel_size: 4, disable_log_requests: True, dtype: None} gives
\* ["--tensor-parallel-size", "4", "--disable-log-requests"].
C16_FlagTranslation ==
  flagPc = "done" =>
    /\ cmd = BaseCmd(builder) \o ClaimedFlags(kwargs)
    /\ kwargs = ExampleBag => cmd = BaseCmd(builder) \o ExampleFlags

C16_Witness ==
  /\ flagPc = "done"
  /\ kwargs = ExampleBag
  /\ cmd = BaseCmd(builder) \o ExampleFlags

\* The items of a bench_cfg, whatever their insertion order.
ItemSet(c) == { c[i] : i \in 1..Len(c) }

\* The keys _generate_result_name spells out in the name.
NameKeys ==
  {"random_input_len", "random_output_len", "num_prompts", "max_concurrency"}

\* Both bench configurations of the entry have their name.
BothNamed == bench_i >= 2

\* The two configurations differ, and only in one key that is not a name key.
DifferOnlyInIgnoredField ==
  /\ ItemSet(bench_cfgs[1].cfg) # ItemSet(bench_cfgs[2].cfg)
  /\ \E k \in {"seed"} \ NameKeys :
       { it \in ItemSet(bench_cfgs[1].cfg) : it.key # k }
         = { it \in ItemSet(bench_cfgs[2].cfg) : it.key # k }

\* C17 (as claimed): two bench configurations of one entry that differ only in
\* a key outside the name keys get distinct result names.
C17_IgnoredFieldGivesDistinctNames ==
  (BothNamed /\ DifferOnlyInIgnoredField) => result_names[1] # result_names[2]

\* C18: two bench configurations of one entry with the same items get the same
\* result name, whatever the insertion order of their keys and whatever
\* their positions in the bench list.
C18_NameIsDeterministic ==
  (BothNamed /\ ItemSet(bench_cfgs[1].cfg) = ItemSet(bench_cfgs[2].cfg)) =>
    result_names[1] = result_names[2]

C18_Witness ==
  /\ BothNamed
  /\ Len(bench_cfgs[1].cfg) = 3
  /\ ItemSet(bench_cfgs[1].cfg) = ItemSet(bench_cfgs[2].cfg)
  /\ bench_cfgs[1].cfg # bench_cfgs[2].cfg
  /\ bench_cfgs[1].index # bench_cfgs[2].index
  /\ result_names[1] = result_names[2]

\* The lines of a sequence that do not carry the marker, in order.
RECURSIVE Unmarked(_)
Unmarked(lines) ==
  IF lines = <<>> THEN <<>>
  ELSE IF \E i \in 1..Len(Head(lines).text) : Head(lines).text[i] = "(APIServer)"
  THEN Unmarked(Tail(lines))
  ELSE <<Head(lines)>> \o Unmarked(Tail(lines))

\* The text log run_benchmark wrote, if it wrote one.
TextLogs == { f \in files : f.by = "run_benchmark" }

\* C19: the lines printed to the caller are at every moment the lines the
\* subprocess has written so far, marked ones included, in order, and all of
\* them once the output is read; a text log that was written holds the
\* header and then exactly the unmarked lines in their order (the nested
\* function of the runner writes each with a newline).
C19_StreamAllPersistFiltered ==
  /\ streamed = SubSeq(output, 1, Len(streamed))
  /\ benchPc \in {"save", "done"} /\ benchExc = NoExc => streamed = output
  /\ \A f \in TextLogs :
       /\ SubSeq(f.content, 1, 2) = LogHeader
       /\ Len(f.content) = 2 + Len(Unmarked(output))
       /\ \A i \in 1..Len(Unmarked(output)) :
            /\ f.content[2 + i].text = Unmarked(output)[i].text
            /\ f.content[2 + i].nl = (impl = "runner" \/ Unmarked(output)[i].nl)

C19_Witness ==
  /\ benchPc = "done"
  /\ Len(output) = 2
  /\ output[1].text[1] # "(APIServer)"
  /\ \E i \in 2..Len(output[1].text) : output[1].text[i] = "(APIServer)"
  /\ streamed = output
  /\ \E f \in TextLogs : f.content = LogHeader \o <<output[2]>>

C6_RetryBudget ==
  (spot /\ AllTransient) =>
    /\ Len(createLog) <= deploy_retries
    /\ e2ePc = "deploy_exit" =>
         /\ Len(createLog) = deploy_retries
         /\ sleeps = deploy_retries
         /\ exc = Exc("Exception", "Failed to create spot instance",
                      LastMessage, deploy_retries)

C6_Witness ==
  /\ spot
  /\ e2ePc = "deploy_exit"
  /\ deploy_retries >= 2
  /\ Len(createLog) = deploy_retries
  /\ AllTransient
  /\ createLog[1].kind = "errors"
  /\ createLog[2].kind = "raise"
  /\ exc.detail = createLog[deploy_retries].msg

\* C7: a provider error during spot creation that matches neither transient
\* substring is raised on the attempt where it occurs: it is the last create
\* call, no sleep follows it, and deploy raises that very message.
C7_NonTransientRaises ==
  spot =>
    \A i \in 1..Len(createLog) :
      (IsProviderError(createLog[i]) /\ ~IsTransient(createLog[i].msg)) =>
        /\ i = Len(createLog)
        /\ sleeps = i - 1
        /\ e2ePc # "deploy_create"
        /\ e2ePc = "deploy_exit" =>
             exc = Exc("Exception", "provider", createLog[i].msg, 0)

C7_Witness ==
  /\ spot
  /\ e2ePc = "deploy_exit"
  /\ deploy_retries >= 2
  /\ Len(createLog) = 1
  /\ createLog[1].kind = "errors"
  /\ ~IsTransient(createLog[1].msg)
  /\ sleeps = 0
  /\ exc.type = "Exception"

\* C8 (as claimed): the RunPod from_yaml returns a dict whose status is success,
\* error or interrupted for every outcome of the run: an Exception gives
\* error, a KeyboardInterrupt gives interrupted, nothing escapes.
C8_StatusForEveryOutcome ==
  E2EOver =>
    /\ status \in {"success", "error", "interrupted"}
    /\ IsException(exc) => status = "error"
    /\ exc.type = "KeyboardInterrupt" => status = "interrupted"

\* C9: once the try block of the SkyPilot from_yaml is entered,
\* teardown_cluster has been called when from_yaml returns, whether launch
\* and the downloads completed, launch raised an Exception, or a
\* KeyboardInterrupt arrived during launch, a download, the teardown or the
\* final prints of the try body; from_yaml then returns a status and does
\* not raise.
C9_TeardownOnEveryOutcome ==
  (skyPc = "done" /\ skyCfg) =>
    /\ Len(teardownLog) >= 1
    /\ skyStatus \in {"success", "error", "interrupted"}

C9_Witness ==
  /\ skyPc = "done"
  /\ skyStatus = "interrupted"
  /\ Len(downloadLog) > 0
  /\ downloadLog[Len(downloadLog)] = "KeyboardInterrupt"
  /\ Len(teardownLog) = 1

\* C10 (as claimed): the result download is attempted after the remote work
\* unit finished, however it finished.
C10_DownloadAfterRemote ==
  (E2EOver /\ remoteOutcome # "none") => downloadOutcome # "none"

\* The order of calls the fault-free scenario with two trials is to show.
ClaimedCalls ==
  <<Call("create", 0), Call("wait-ready", 0), Call("environment-setup", 0),
    Call("server-start", 0), Call("health-ok", 0), Call("trial", 1),
    Call("trial", 2), Call("server-stop", 0), Call("port-released", 0),
    Call("download", 0), Call("destroy", 0)>>

\* The keys of the returned dict that hold one value, not a list of names.
ScalarKeys == {"status", "gpu_type", "gpu_count", "error"}

\* C21: a fault-free cloud run of one server configuration and two trials
\* with saving enabled makes its calls in the order create, wait-ready,
\* environment setup, server start, health ok, trial 1, trial 2, server stop,
\* port released, download, destroy, and its return value has status success
\* and reports the two result names.
C21_FaultFreeOrderAndReport ==
  (/\ cloudPc = "done" /\ Len(context_sizes) = 2 /\ cloudSave
   /\ \A i \in 1..Len(returncodes) : returncodes[i] = 0) =>
    /\ calls = ClaimedCalls
    /\ ret.status = "success"
    /\ \E k \in DOMAIN ret \ ScalarKeys :
         ret[k] = ResultNames(context_sizes)

\* The part of C21 that is about the order of the calls alone.
C21_OrderOnly ==
  (/\ cloudPc = "done" /\ Len(context_sizes) = 2 /\ cloudSave
   /\ \A i \in 1..Len(returncodes) : returncodes[i] = 0) =>
    /\ calls = ClaimedCalls
    /\ ret.status = "success"

\* C22: when the delete call of run_e2e's cleanup block fails, the failure is
\* not raised: the exception in flight after the block is the one of the body
\* (none when the body succeeded), so run_e2e ends as its body did.
C22_DeleteFailureNotRaised ==
  [][(e2ePc = "finally" /\ deleteOutcome' = "Exception") => exc' = exc]_vars

\* The delete call failed after the body had failed.
C22_Witness ==
  /\ E2EOver
  /\ deleteOutcome = "Exception"
  /\ exc # NoExc
  /\ status = "error"

\* The delete call failed after the body had succeeded.
C22_WitnessReturns ==
  /\ E2EOver
  /\ deleteOutcome = "Exception"
  /\ exc = NoExc
  /\ status = "success"

\* C23: an invocation that asks for a run exits with a non-zero code whenever
\* the returned status is not success (1 for error, 130 for interrupted) or
\* the config file does not exist, in which case no run is started; it exits
\* with 0 only when the returned status is success.
C23_ExitCodeFollowsStatus ==
  (cliPc = "exited" /\ AsksForRun) =>
    /\ result_status = "error" => exit_code = 1
    /\ result_status = "interrupted" => exit_code = 130
    /\ result_status \notin {"none", "success"} => exit_code # 0
    /\ ~config_exists => exit_code # 0 /\ from_yaml_calls = 0
    /\ exit_code = 0 => result_status = "success"

\* A run that came back interrupted, and the exit that followed.
C23_Witness ==
  /\ cliPc = "exited"
  /\ AsksForRun
  /\ from_yaml_calls = 1
  /\ result_status = "interrupted"
  /\ exit_code = 130

\* An invocation that names a config file that does not exist.
C23_WitnessMissingConfig ==
  /\ cliPc = "exited"
  /\ AsksForRun
  /\ ~config_exists
  /\ exit_code = 1

\* C24: benchmaq.bench raises ValueError before any local or remote execution
\* starts when the merged config defines no runs; when runs are defined, what
\* it returns is a dict with status success or error, and an Exception raised
\* by the run is returned as status error and does not propagate.
C24_NoRunsRaisesElseStatus ==
  apiPc = "done" =>
    /\ config_runs = <<>> =>
         /\ apiExc.type = "ValueError"
         /\ executions = <<>>
         /\ apiResult = NoReturn
    /\ config_runs # <<>> =>
         /\ ~IsException(apiExc)
         /\ apiExc = NoExc => apiResult.status \in {"success", "error"}
         /\ apiExc # NoExc => apiResult = NoReturn

\* A run that raised an Exception, returned as status error.
C24_Witness ==
  /\ apiPc = "done"
  /\ config_runs # <<>>
  /\ executions # <<>>
  /\ apiResult.status = "error"
  /\ apiExc = NoExc

\* A call without runs.
C24_WitnessNoRuns ==
  /\ apiPc = "done"
  /\ config_runs = <<>>
  /\ apiExc.type = "ValueError"

\* A status of the 2xx class.
Is2xx(a) == a \in 200..299

\* C26: bounded health polling makes at most max_attempts probes, returns
\* True at the first probe answered with a 2xx status and returns False only
\* after max_attempts probes none of which succeeded; unbounded polling
\* (max_attempts = 0) never returns False.
C26_HealthPolling ==
  /\ hMaxAttempts > 0 => Len(answers) <= hMaxAttempts
  /\ \A i \in DOMAIN answers :
       Is2xx(answers[i]) => i = Len(answers) /\ hResult = "True"
  /\ hResult = "True" => Is2xx(answers[Len(answers)])
  /\ hResult = "False" =>
       /\ hMaxAttempts > 0
       /\ Len(answers) = hMaxAttempts
       /\ \A i \in DOMAIN answers : ~Is2xx(answers[i])
  /\ hMaxAttempts = 0 => hResult # "False"

\* The same with status 200 in the place of the 2xx class.
C26_HealthPolling200 ==
  /\ hMaxAttempts > 0 => Len(answers) <= hMaxAttempts
  /\ \A i \in DOMAIN answers :
       answers[i] = 200 => i = Len(answers) /\ hResult = "True"
  /\ hResult = "True" => answers[Len(answers)] = 200
  /\ hResult = "False" =>
       /\ hMaxAttempts > 0
       /\ Len(answers) = hMaxAttempts
       /\ \A i \in DOMAIN answers : answers[i] # 200
  /\ hMaxAttempts = 0 => hResult # "False"

\* C27: stop() on a running server sends the interrupt signal first; the
\* kill is sent only after the 30 s wait timed out and is followed by a wait
\* without timeout; the port is probed, at most 30 times, only after the
\* child has exited; when stop() returns the child has terminated.
C27_StopDiscipline ==
  /\ signals # <<>> => signals[1] = "SIGINT"
  /\ \A i \in DOMAIN signals :
       signals[i] = "SIGKILL" =>
         /\ i = 2
         /\ timed_out
         /\ waits[1] = "timeout=30"
         /\ \/ stopPc = "wait_killed"
            \/ stopExc # NoExc
            \/ Len(waits) = 2 /\ waits[2] = "no timeout"
  /\ (stopPc = "probe" \/ bind_probes > 0) => stopProc = "exited"
  /\ bind_probes <= PortProbes
  /\ (stopPc = "returned" /\ signals # <<>>) => stopProc = "exited"

\* stop() returned after a kill and a confirmed release of the port.
C27_Witness ==
  /\ stopPc = "returned"
  /\ signals = <<"SIGINT", "SIGKILL">>
  /\ waits = <<"timeout=30", "no timeout">>
  /\ bind_probes > 1
  /\ port_released
  /\ stopProc = "exited"

\* C25: at every point of the execution of a plan at most one server child
\* is alive (no server is started while the child of an earlier one runs),
\* at most one trial child is running, and a trial runs only between the
\* return of start() and the call of stop() of the server of its entry.
C25_OneServerOneTrial ==
  /\ seqPc = "enter" => proc # "running"
  /\ trials_alive <= 1
  /\ trials_alive > 0 => startReturned /\ stops = 0

\* The part of C25 about the number of live children.
C25_AtMostOneOfEach ==
  /\ seqPc = "enter" => proc # "running"
  /\ trials_alive <= 1

\* The events of a kind logged for an entry.
EventsOf(op, i) ==
  {k \in DOMAIN events : events[k].op = op /\ events[k].entry = i}

\* The loop is past entry i.
Passed(i) == run_i > i \/ planPc \in {"done", "raised"}

\* The name or the model of entry i is empty.
EmptyNameOrModel(i) ==
  \/ runs[i].name = ""
  \/ ModelOf(planImpl, runs[i]) = ""

\* C28: a plan entry whose name or model identifier is empty is skipped
\* without error: no server is started and no trial is run for it, and the
\* entries after it are still executed, in order.
C28_EmptyEntrySkipped ==
  \A i \in DOMAIN runs :
    EmptyNameOrModel(i) =>
      /\ EventsOf("start", i) = {}
      /\ EventsOf("trial", i) = {}
      /\ (planPc = "raised" => run_i # i)
      /\ planPc = "done" =>
           \A j \in DOMAIN runs :
             (j > i /\ ~EmptyNameOrModel(j) /\ runs[j].trials > 0) =>
               EventsOf("start", j) # {}

\* C29: when the model download of an entry exits with a non-zero code, an
\* error is raised and neither a server start nor a trial is executed for
\* the entry.
C29_DownloadFailureIsFatal ==
  \A k \in DOMAIN events :
    (events[k].op = "download" /\ events[k].rc # 0) =>
      /\ planPc = "raised"
      /\ planExc.type = "Exception"
      /\ k = Len(events)
      /\ EventsOf("start", events[k].entry) = {}
      /\ EventsOf("trial", events[k].entry) = {}

\* The download of the second entry failed after the first entry ran.
C29_Witness ==
  /\ planPc = "raised"
  /\ Len(events) > 1
  /\ events[Len(events)] = Event("download", 2, 1)
  /\ EventsOf("trial", 1) # {}

\* The part of C28 that holds: run_remote and vllm.run start no server and
\* run no trial for an entry whose name or model is empty.
C28_SkippedByRunnerVariants ==
  planImpl # "_run_benchmarks" =>
    \A i \in DOMAIN runs :
      EmptyNameOrModel(i) =>
        EventsOf("start", i) = {} /\ EventsOf("trial", i) = {}

\* C30: a spot deploy uses an explicit bid_per_gpu as given and makes no price
\* query; without an explicit bid it queries the provider's minimum bid and
\* uses it; when the query fails or brings no price the bid is 0 and the
\* create call is made all the same.
C30_SpotBid ==
  (bidSpot /\ bidPc = "created") =>
    /\ Len(mutations) = 1
    /\ mutations[1].mutation = "podRentInterruptable"
    /\ IF bid_per_gpu # None
         THEN /\ price_queries = <<>>
              /\ mutations[1].bidPerGpu = bid_per_gpu
         ELSE /\ Len(price_queries) = 1
              /\ LET reply == price_queries[1].reply
                 IN  IF reply.kind = "lowestPrice" /\ reply.price # None
                       THEN mutations[1].bidPerGpu = reply.price
                       ELSE mutations[1].bidPerGpu = 0

\* No behaviour of a spot deploy ends before the create call: from every
\* state short of it a step is enabled.
C30_ReachesCreate ==
  bidPc \in {"choose", "query", "fallback", "create"} => ENABLED NextBid

\* The price query failed and the pod was created with a bid of 0.
C30_Witness ==
  /\ bidSpot
  /\ bidPc = "created"
  /\ bid_per_gpu = None
  /\ Len(price_queries) = 1
  /\ price_queries[1].reply.kind = "raises"
  /\ mutations[1].bidPerGpu = 0

\* An explicit bid of 0 was used without a query.
C30_WitnessExplicit ==
  /\ bidSpot
  /\ bidPc = "created"
  /\ bid_per_gpu = 0
  /\ price_queries = <<>>
  /\ mutations[1].bidPerGpu = 0

\* The scp commands that ended with return code 0, in the order they ran.
TransfersSucceeded == SelectSeq(scp_runs, LAMBDA r : r.outcome = "rc 0")

\* The file names of a sequence of scp commands.
FileNamesOf(transfers) ==
  [i \in 1..Len(transfers) |-> basename(transfers[i].remote_file)]

\* C31: when result collection returns after listing files, one transfer was
\* made for every listed file, in the listed order, whatever the earlier
\* transfers did; the returned list holds exactly the names of the files
\* whose transfer succeeded, in that order; every failed transfer is logged
\* under the file's name; and the status is success.
C31_DownloadedIsSucceededSubsequence ==
  (sshPc = "done" /\ listed_files # <<>>) =>
    /\ sshResult.status = "success"
    /\ Len(scp_runs) = Len(listed_files)
    /\ \A i \in 1..Len(scp_runs) : scp_runs[i].remote_file = listed_files[i]
    /\ sshResult.files = FileNamesOf(TransfersSucceeded)
    /\ \A i \in 1..Len(scp_runs) :
         scp_runs[i].outcome # "rc 0" =>
           \E j \in 1..Len(sshLog) :
             sshLog[j] = [event |-> "Failed to download",
                          filename |-> basename(scp_runs[i].remote_file)]

\* The first transfer failed, a later one succeeded, and the call returned
\* the later file alone.
C31_Witness ==
  /\ sshPc = "done"
  /\ Len(listed_files) >= 2
  /\ scp_runs[1].outcome \in {"rc 1", "Exception"}
  /\ scp_runs[2].outcome = "rc 0"
  /\ sshResult.status = "success"
  /\ sshResult.files = <<basename(listed_files[2])>>

\* The suffixes the priority order names for a directory: .json with the
\* .txt logs; without any .json, .jsonl with the .txt logs; without either,
\* the .txt logs alone.
HasSuffix(dir, x) == \E f \in dir : f.suffix = x

PrioritySuffixes(dir) ==
  IF HasSuffix(dir, "json") THEN {"json", "txt"}
  ELSE IF HasSuffix(dir, "jsonl") THEN {"jsonl", "txt"}
  ELSE {"txt"}

\* C32: the files result collection lists - and goes on to transfer - are
\* those of the priority order: the .json results with the .txt logs; when the
\* directory holds no .json, the .jsonl results together with the .txt logs;
\* and the .txt logs alone only when it holds neither.
C32_ListedByPriorityWithFallback ==
  (sshPc \in {"scp", "done"} /\ listed_files # <<>>) =>
    listed_files = Ls(remote_dir, PrioritySuffixes(remote_dir))

\* What the listing does: the files are those of the first pattern whose `ls`
\* prints anything, which is the first pattern as soon as the directory holds
\* a .json or a .txt file; the second pattern is reached only without both and
\* then brings .jsonl files alone, and the third never brings anything.
C32_ListedByFirstPrintingPattern ==
  (sshPc \in {"scp", "done"} /\ listed_files # <<>>) =>
    /\ listed_files = Ls(remote_dir, file_patterns[pattern_i])
    /\ \A k \in 1..(pattern_i - 1) : Ls(remote_dir, file_patterns[k]) = <<>>
    /\ pattern_i \in {1, 2}
    /\ pattern_i = 2 =>
         \A i \in 1..Len(listed_files) : listed_files[i].suffix = "jsonl"

\* A directory with a .jsonl result and its .txt log, of which the .txt log
\* alone was listed.
C32_JsonlLeftBehind ==
  /\ sshPc \in {"scp", "done"}
  /\ remote_dir = {[stem |-> "r1", suffix |-> "jsonl"],
                   [stem |-> "r1", suffix |-> "txt"]}
  /\ listed_files = <<RemotePath([stem |-> "r1", suffix |-> "txt"])>>

\* The download has made its connect call.
DownloadConnected == fetchPc \in {"json", "txt", "return", "done"}

\* C33: the connection of the download is opened with the host, port, user,
\* password and private key the RemoteSession of the run was opened with, and
\* a target that let the run in lets the download in.
C33_SameEndpointAndCredentials ==
  DownloadConnected =>
    /\ connect_args = session_args
    /\ Authenticates(connect_args, target_accepts)

\* What the two calls share: host, port, user and private key.
C33_SameEndpointAndKey ==
  DownloadConnected =>
    /\ connect_args.host = session_args.host
    /\ connect_args.port = session_args.port
    /\ connect_args.username = session_args.username
    /\ connect_args.key_filename = session_args.key_filename
    /\ connect_args.password = Absent

\* A target that accepts the password alone ran the work, refused the
\* download, and the call still reported success.
C33_PasswordOnlyRefused ==
  /\ fetchPc = "done"
  /\ target_accepts = {"password"}
  /\ session_args.password = "secret"
  /\ remote_tree # {}
  /\ fetched = {}
  /\ fetchLog = <<"Failed to download results">>
  /\ fetchResult.status = "success"

\* The download ran to its end with the connection opened and no transfer
\* failing.
DownloadUnhindered ==
  /\ fetchPc = "done"
  /\ \A j \in 1..Len(fetchLog) : fetchLog[j] = "No results found"

\* The local copies of the result files of entry i.
LocalCopiesOf(i) ==
  {[dir |-> lstrip(RemoteOutputDir(fetch_runs[i])), entry |-> i,
    suffix |-> x] : x \in {"json", "txt"}}

\* C40: after a download in which nothing failed, the result files of every
\* run entry with save_results enabled are on the local machine, each under
\* its entry's output directory.
C40_EverySavingEntryRetrieved ==
  DownloadUnhindered =>
    \A i \in 1..Len(fetch_runs) :
      fetch_runs[i].save_results => LocalCopiesOf(i) \subseteq fetched

\* What the download retrieves: the files of one directory, the output_dir of
\* the first entry whose benchmark section enables save_results (the default
\* directory without one), whichever entries wrote them.
C40_OneDirectoryRetrieved ==
  DownloadUnhindered =>
    fetched =
      {[dir |-> lstrip(f.dir), entry |-> f.entry, suffix |-> f.suffix] :
         f \in {g \in remote_tree : g.dir = FirstSavingDir(fetch_runs, 1)}}

\* Two entries saved into different directories and only the first entry's
\* files were retrieved.
C40_SecondDirectoryLeftBehind ==
  /\ DownloadUnhindered
  /\ Len(fetch_runs) = 2
  /\ \A i \in 1..2 : /\ fetch_runs[i].form = "benchmark section"
                     /\ fetch_runs[i].save_results
  /\ fetch_runs[1].output_dir = "./out_a"
  /\ fetch_runs[2].output_dir = "./out_b"
  /\ LocalCopiesOf(1) \subseteq fetched
  /\ LocalCopiesOf(2) \cap fetched = {}

\* A single flattened entry saved its results and none was retrieved.
C40_FlattenedEntryLeftBehind ==
  /\ DownloadUnhindered
  /\ Len(fetch_runs) = 1
  /\ fetch_runs[1].form = "flattened"
  /\ fetch_runs[1].save_results
  /\ fetch_runs[1].output_dir = "./out_a"
  /\ remote_tree # {}
  /\ fetched = {}

\* The parameters of a trial: its parallelism pair and the element of each
\* list it ran with.
TrialParameters(t) ==
  <<t.pair.tensor_parallel, t.pair.data_parallel, t.pair.pipeline_parallel,
    t.ctx, t.concurrency, t.num_prompts, t.output_len>>

\* C34: two trials of one flattened entry that differ in tensor, data or
\* pipeline parallel degree, context size, concurrency, prompt count or
\* output length have different result names.
C34_DistinctTrialsDistinctNames ==
  \A i, j \in 1..Len(flat_trials) :
    TrialParameters(flat_trials[i]) # TrialParameters(flat_trials[j]) =>
      flat_trials[i].result_name # flat_trials[j].result_name

\* What the name does tell apart: trials that differ in anything but the
\* pipeline parallel degree.
C34_DistinctButForPipelineParallel ==
  \A i, j \in 1..Len(flat_trials) :
    (\E k \in {1, 2, 4, 5, 6, 7} :
       TrialParameters(flat_trials[i])[k] # TrialParameters(flat_trials[j])[k])
      => flat_trials[i].result_name # flat_trials[j].result_name

\* Two pairs of one entry differ in the pipeline parallel degree alone and
\* their trials were given one name.
C34_PipelineParallelCollision ==
  /\ flatPc = "done"
  /\ Len(flat_pairs) = 2
  /\ flat_pairs[1].pipeline_parallel # flat_pairs[2].pipeline_parallel
  /\ Len(flat_trials) = 2
  /\ flat_trials[1].result_name = flat_trials[2].result_name

\* C35: a RunPod run that returns status success ran every trial of its plan
\* and every trial subprocess exited with code 0.
C35_SuccessMeansEveryTrialExitedZero ==
  ret.status = "success" =>
    /\ Len(returncodes) = Len(context_sizes)
    /\ \A i \in 1..Len(returncodes) : returncodes[i] = 0

\* What the run does: every trial of the plan is run whatever the earlier
\* ones returned, and the status is success whatever any of them returned.
C35_StatusIgnoresReturnCodes ==
  cloudPc = "done" =>
    /\ Len(returncodes) = Len(context_sizes)
    /\ ret.status = "success"
    /\ remote_result = [status |-> "completed"]

\* The first trial exited with code 1 and the run reported success.
C35_FailedTrialReportedSuccess ==
  /\ cloudPc = "done"
  /\ Len(returncodes) = 2
  /\ returncodes[1] = 1
  /\ ret.status = "success"

\* The files run_benchmark persists a trial to when no result_filename is
\* configured: f"{result_name}.json" and f"{result_name}.txt" in result_dir.
ResultFilesOf(name) == {name \o <<".json">>, name \o <<".txt">>}

\* C38: the trials of two bench configurations at different indices of one
\* entry's bench list persist to different files, also when the two
\* configurations are identical.
C38_TrialsPersistToDistinctFiles ==
  BothNamed =>
    ResultFilesOf(result_names[1]) \cap ResultFilesOf(result_names[2]) = {}

\* What the naming does: the index passed to it has no part in the name, so
\* the files of a trial are those of the same configuration at index 0.
C38_IndexHasNoPartInName ==
  \A k \in 1..Len(result_names) :
    ResultFilesOf(result_names[k]) =
      ResultFilesOf(generate_result_name(config_name, 0, bench_cfgs[k].cfg))

\* The same configuration stands at two indices of the list and both trials
\* were persisted to the same two files.
C38_RepeatedConfigOverwrites ==
  /\ BothNamed
  /\ bench_cfgs[1].index # bench_cfgs[2].index
  /\ bench_cfgs[1].cfg = bench_cfgs[2].cfg
  /\ ResultFilesOf(result_names[1]) = ResultFilesOf(result_names[2])

\* Entry i ended up skipped: the loop went past it by its skip test.
EndedSkipped(i) ==
  /\ run_i > i \/ planPc = "done"
  /\ Skipped(planImpl, NameOf(planImpl, runs[i]), ModelOf(planImpl, runs[i]),
             runs[i])

\* C39: for a plan entry that ended up skipped no model download was run, no
\* server was started and no trial was run.
C39_SkippedEntryHasNoEffects ==
  \A i \in DOMAIN runs :
    EndedSkipped(i) =>
      /\ EventsOf("download", i) = {}
      /\ EventsOf("start", i) = {}
      /\ EventsOf("trial", i) = {}

\* What holds of a skipped entry: no server and no trial; and its model is
\* downloaded exactly when a download is configured for it and the runner is
\* one that downloads.
C39_SkippedEntryStartsNothing ==
  \A i \in DOMAIN runs :
    EndedSkipped(i) =>
      /\ EventsOf("start", i) = {}
      /\ EventsOf("trial", i) = {}
      /\ EventsOf("download", i) # {} <=>
           (runs[i].download /\ planImpl # "vllm.run")

\* An entry without bench configurations was skipped by _run_benchmarks after
\* its model had been downloaded.
C39_DownloadedThenSkipped ==
  /\ planImpl = "_run_benchmarks"
  /\ planPc = "done"
  /\ Len(runs) = 1
  /\ runs[1].trials = 0
  /\ EndedSkipped(1)
  /\ events = <<Event("download", 1, 0)>>

\* C36: once the server child has exited while start() is still polling for
\* health, the polling ends, in the bounded and in the unlimited mode.
C36_PollingEndsWhenChildDead ==
  (seqPc = "health" /\ proc = "exited") ~> (seqPc # "health")

\* What holds: polling with a positive max_attempts ends, whatever the child
\* does.
C36_BoundedPollingEnds ==
  (seqPc = "health" /\ max_attempts > 0) ~> (seqPc # "health")

\* The unlimited mode polls a child that has exited.
C36_PollingDeadChild ==
  /\ seqPc = "health"
  /\ engine = "vllm"
  /\ max_attempts = 0
  /\ proc = "exited"
  /\ health_attempt > 0

\* The sequencer has left the current entry by an exception raised out of
\* start(), after the child was spawned.
StartFailedAndLeft == seqPc = "raised" /\ ~startReturned /\ proc # "none"

\* C37: when start() was left by an exception after it had spawned the
\* child, no server child is running once the sequencer has left the entry.
C37_NoServerLeftAfterFailedStart ==
  StartFailedAndLeft => proc # "running"

\* What holds: stop() is not called for a start() that raised, and a server
\* whose start() returned is not running once its entry is left.
C37_StoppedOnlyAfterStartReturned ==
  /\ StartFailedAndLeft => stops = 0
  /\ (startReturned /\ seqPc \in {"with_exit", "entry", "raised", "done"})
       => proc # "running"

\* start() was interrupted during the health wait and the sequencer ended
\* with the child running and its port held.
C37_ServerLeftRunning ==
  /\ StartFailedAndLeft
  /\ seqExc = KeyboardInterrupt
  /\ proc = "running"
  /\ serverPort \in portBusy
  /\ stops = 0

====
